---- MODULE Spec2Model ----
(***************************************************************************)
(* A model of py6502, a MOS 6502 emulator: the byte helpers, the memory,   *)
(* the registers and status register, the address-mode resolver, the       *)
(* per-mnemonic execute routines and the emulator's step.                  *)
(*                                                                         *)
(* Python integers are unbounded; they are modelled by TLA+ integers.      *)
(* x & 0xff on a Python int is x % 256 (two's complement, also for x < 0), *)
(* x >> k is x \div 2^k and bit i of x is (x \div 2^i) % 2.                *)
(***************************************************************************)
EXTENDS Integers, Sequences, FiniteSets, TLC

VARIABLES a, x, y, sp, pc, sr, mem, err, out, call

vars == <<a, x, y, sp, pc, sr, mem, err, out, call>>

(***************************************************************************)
(* Bounds of the model.                                                    *)
(***************************************************************************)
\* Number of Emulator.step calls explored from an initial state.
MaxSteps == 2

\* Number of calls a client makes besides step.
MaxCalls == 2

(***************************************************************************)
(* Python integer arithmetic.                                              *)
(***************************************************************************)
Pow2(n) == 2 ^ n

\* Bit i of the Python int n (infinite two's complement for n < 0).
PyBit(n, i) == (n \div Pow2(i)) % 2

Xor1(p, q) == (p + q) % 2

RECURSIVE PyBits(_, _, _, _)
\* Bitwise combination of the low w bits of p and q; f is the truth table
\* <<f(0,0), f(0,1), f(1,0), f(1,1)>>.
PyBits(f, p, q, w) ==
    IF w = 0 THEN 0
    ELSE f[2 * (p % 2) + (q % 2) + 1] + 2 * PyBits(f, p \div 2, q \div 2, w - 1)

\* Width that holds every non-negative value a register or address takes.
Width == 18

PyAnd(p, q) == PyBits(<<0, 0, 0, 1>>, p, q, Width)
PyOr(p, q) == PyBits(<<0, 1, 1, 1>>, p, q, Width)
PyXor(p, q) == PyBits(<<0, 1, 1, 0>>, p, q, Width)

\* The value raised nothing.
NoError == ""

\* Python's None for an operand or an address that is not set.
None == -1000000

(***************************************************************************)
(* mos6502/helpers                                                         *)
(***************************************************************************)
to_signed_byte_ok(num) == 0 <= num /\ num <= 255

\* The conversion without the sign: 256 - num for the upper half.
to_signed_byte_Magnitude(num) == IF num <= 127 THEN num ELSE 256 - num

to_signed_byte(num) == IF num <= 127 THEN num ELSE (256 - num) * (-1)

to_unsigned_byte_ok(num) == -128 <= num /\ num <= 127

to_unsigned_byte(num) == IF num >= 0 THEN num ELSE 256 + num

(***************************************************************************)
(* mos6502/processor: registers                                            *)
(***************************************************************************)
\* _Register.__init__: the mask of a register of the given size in bytes.
RegMask(size) == Pow2(8 * size) - 1

\* A, X, Y and SR are built with size 1, SP and PC with size 2.
MASK8 == RegMask(1)
MASK16 == RegMask(2)

\* value_set raises exactly when to_unsigned_byte's assertion fails.
value_set_ok(val) == val > 0 \/ to_unsigned_byte_ok(val)

\* The write without the mask: the value is stored as it is given.
value_set_Unmasked(val, mask) ==
    IF val > 0 THEN val ELSE to_unsigned_byte(val)

\* value_set: the value stored by a write of val to a register with mask.
value_set(val, mask) ==
    LET v == IF val > 0 THEN val ELSE to_unsigned_byte(val)
    IN  v % (mask + 1)

\* _Register.signed
signed(value) == to_signed_byte(value)

(***************************************************************************)
(* mos6502/processor: status register (packed byte N V - B D I Z C)        *)
(***************************************************************************)
BitN == 7
BitV == 6
BitUnused == 5
BitB == 4
BitD == 3
BitI == 2
BitZ == 1
BitC == 0

\* SR.value setter: or in bit 5, then the register write.
\* The packed write without the overridden setter: bit 5 is not forced.
SR_value_set_Plain(val) == value_set(val, MASK8)

SR_value_set(val) ==
    LET v == IF PyBit(val, BitUnused) = 1 THEN val ELSE val + Pow2(BitUnused)
    IN  value_set(v, MASK8)

\* SR._get_bit_value
get_bit_value(value, bit) == (PyAnd(value, Pow2(bit))) \div Pow2(bit)

\* The flag write that stores the one bit alone instead of merging it into
\* the value.
set_bit_value_Alone(value, bit, val) ==
    IF val = 1 THEN SR_value_set(Pow2(bit)) ELSE SR_value_set(0)

\* SR._set_bit_value for val in {0, 1}.
set_bit_value(value, bit, val) ==
    IF val = 1
    THEN SR_value_set(PyOr(value, Pow2(bit)))
    ELSE SR_value_set(value - PyBit(value, bit) * Pow2(bit))

\* SR.__init__
SR_init == set_bit_value(0, BitUnused, 1)

(***************************************************************************)
(* mos6502/memory                                                          *)
(*                                                                         *)
(* The list of SIZE cells is held as the function from the addresses of    *)
(* its non-zero cells to their values; every other cell holds the 0x00 the *)
(* constructor put there.                                                  *)
(***************************************************************************)
SIZE == \h1900

\* A Python list index: a negative index counts from the end.
Index(address) == IF address < 0 THEN SIZE + address ELSE address

\* self._memory[i] for 0 <= i < SIZE
Cell(mm, i) == IF i \in DOMAIN mm THEN mm[i] ELSE 0

\* self._memory[i] = v for 0 <= i < SIZE
Store(mm, i, v) ==
    IF v = 0
    THEN [j \in (DOMAIN mm) \ {i} |-> mm[j]]
    ELSE [j \in (DOMAIN mm) \cup {i} |-> IF j = i THEN v ELSE mm[j]]

\* The exception of read_byte / write_byte at address, or NoError.
access_err(address) ==
    IF ~(address < SIZE) THEN "AssertionError"
    ELSE IF address < -SIZE THEN "IndexError"
    ELSE NoError

read_byte(mm, address) == Cell(mm, Index(address))

\* write_byte that stores the value as it is given.
write_byte_Unmasked(mm, address, value) == Store(mm, Index(address), value)

write_byte(mm, address, value) == Store(mm, Index(address), value % 256)

\* The IndexError of the list access self._memory[i], or NoError.
index_err(i) == IF i >= SIZE \/ i < -SIZE THEN "IndexError" ELSE NoError

\* The exception of read_word at address, or NoError: the assertion, then
\* the two list accesses.
read_word_err(address) ==
    IF ~(address < SIZE) THEN "AssertionError"
    ELSE IF index_err(address) # NoError THEN index_err(address)
    ELSE index_err(address + 1)

\* read_word: self._memory[address] + self._memory[address + 1] << 8, where
\* + binds tighter than <<.
read_word(mm, address) ==
    (Cell(mm, Index(address)) + Cell(mm, Index(address + 1))) * Pow2(8)

\* write_word: the memory it leaves and the exception it raised; the low
\* byte is stored before the access to address + 1 can fail.
write_word(mm, address, value) ==
    LET low == value % 256
        high == (value \div Pow2(8)) % 256
        m1 == Store(mm, Index(address), low)
    IN  IF ~(address < SIZE) THEN [mem |-> mm, err |-> "AssertionError"]
        ELSE IF index_err(address) # NoError
        THEN [mem |-> mm, err |-> index_err(address)]
        ELSE IF index_err(address + 1) # NoError
        THEN [mem |-> m1, err |-> index_err(address + 1)]
        ELSE [mem |-> Store(m1, Index(address + 1), high), err |-> NoError]

\* self._memory[lo:hi] for 0 <= lo: a slice stops at the end of the list.
Slice(mm, lo, hi) ==
    LET top == IF hi > SIZE THEN SIZE ELSE hi
        n == IF top > lo THEN top - lo ELSE 0
    IN  [i \in 1..n |-> Cell(mm, lo + i - 1)]

(***************************************************************************)
(* mos6502/assembly: the address-mode resolver                             *)
(***************************************************************************)
\* MCU.sp_base
sp_base == Pow2(8)

Resolved(operand, address) == [operand |-> operand, address |-> address, err |-> NoError]

ResolveFailed(e) == [operand |-> None, address |-> None, err |-> e]

\* operand = memory[address], returned with the address
FromMemory(m, address) ==
    IF access_err(address) # NoError THEN ResolveFailed(access_err(address))
    ELSE Resolved(read_byte(m.mem, address), address)

\* The indexed zero page address without the wrap to page 0.
zeropage_indexed_NoWrap(b0, index) == b0 + index

\* (bytez[0] + index) & 0xff of the two zero page indexed modes
zeropage_indexed(b0, index) == (b0 + index) % 256

calculate_operand(mode, bytez, m) ==
    CASE mode = "ACCUMULATOR" -> Resolved(m.a, None)
      [] mode = "ABSOLUTE" ->
            IF Len(bytez) # 2 THEN ResolveFailed("AssertionError")
            ELSE FromMemory(m, bytez[2] * 256 + bytez[1])
      [] mode = "ABSOLUTE_X_INDEXED" ->
            IF Len(bytez) # 2 THEN ResolveFailed("AssertionError")
            ELSE FromMemory(m, bytez[2] * 256 + bytez[1] + m.x)
      [] mode = "ABSOLUTE_Y_INDEXED" ->
            IF Len(bytez) # 2 THEN ResolveFailed("AssertionError")
            ELSE FromMemory(m, bytez[2] * 256 + bytez[1] + m.y)
      [] mode = "IMMEDIATE" ->
            IF Len(bytez) # 1 THEN ResolveFailed("AssertionError")
            ELSE Resolved(bytez[1], None)
      [] mode = "IMPLIED" -> Resolved(None, None)
      [] mode = "INDIRECT" ->
            IF Len(bytez) # 2 THEN ResolveFailed("AssertionError")
            ELSE LET ptr == bytez[2] * 256 + bytez[1]
                 IN  IF access_err(ptr) # NoError THEN ResolveFailed(access_err(ptr))
                     ELSE IF access_err(ptr + 1) # NoError
                     THEN ResolveFailed(access_err(ptr + 1))
                     ELSE Resolved(ptr, read_byte(m.mem, ptr + 1) * 256
                                        + read_byte(m.mem, ptr))
      [] mode = "INDEXED_X_INDIRECT" ->
            IF Len(bytez) # 1 THEN ResolveFailed("AssertionError")
            ELSE LET p == (bytez[1] + m.x) % 256
                 IN  FromMemory(m, read_byte(m.mem, p) + read_byte(m.mem, p + 1) * 256)
      [] mode = "INDIRECT_Y_INDEXED" ->
            IF Len(bytez) # 1 THEN ResolveFailed("AssertionError")
            ELSE LET p == bytez[1] % 256
                 IN  FromMemory(m, read_byte(m.mem, p) + read_byte(m.mem, p + 1) * 256
                                   + m.y)
      [] mode = "RELATIVE" ->
            IF Len(bytez) # 1 THEN ResolveFailed("AssertionError")
            ELSE FromMemory(m, to_signed_byte(bytez[1]) + m.pc)
      [] mode = "ZEROPAGE" ->
            IF Len(bytez) # 1 THEN ResolveFailed("AssertionError")
            ELSE FromMemory(m, bytez[1])
      [] mode = "ZEROPAGE_X_INDEXED" ->
            IF Len(bytez) # 1 THEN ResolveFailed("AssertionError")
            ELSE FromMemory(m, zeropage_indexed(bytez[1], m.x))
      [] mode = "ZEROPAGE_Y_INDEXED" ->
            IF Len(bytez) # 1 THEN ResolveFailed("AssertionError")
            ELSE FromMemory(m, zeropage_indexed(bytez[1], m.y))
      [] OTHER -> ResolveFailed("AssertionError")

(***************************************************************************)
(* mos6502/assembly: the instruction tables, opcode |-> <<address mode,     *)
(* bytes, cycles, page boundary cycles>>                                    *)
(***************************************************************************)
\* The ADC table with the absolute form recorded one byte short.
ADC_INSTRUCTIONS_ShortAbsolute ==
    (\h69 :> <<"IMMEDIATE", 2, 2, 0>>)
    @@ (\h65 :> <<"ZEROPAGE", 2, 3, 0>>)
    @@ (\h75 :> <<"ZEROPAGE_X_INDEXED", 2, 4, 0>>)
    @@ (\h6D :> <<"ABSOLUTE", 2, 4, 0>>)
    @@ (\h7D :> <<"ABSOLUTE_X_INDEXED", 3, 4, 1>>)
    @@ (\h79 :> <<"ABSOLUTE_Y_INDEXED", 3, 4, 1>>)
    @@ (\h61 :> <<"INDEXED_X_INDIRECT", 2, 6, 0>>)
    @@ (\h71 :> <<"INDIRECT_Y_INDEXED", 2, 5, 1>>)

ADC_INSTRUCTIONS ==
    (\h69 :> <<"IMMEDIATE", 2, 2, 0>>)
    @@ (\h65 :> <<"ZEROPAGE", 2, 3, 0>>)
    @@ (\h75 :> <<"ZEROPAGE_X_INDEXED", 2, 4, 0>>)
    @@ (\h6D :> <<"ABSOLUTE", 3, 4, 0>>)
    @@ (\h7D :> <<"ABSOLUTE_X_INDEXED", 3, 4, 1>>)
    @@ (\h79 :> <<"ABSOLUTE_Y_INDEXED", 3, 4, 1>>)
    @@ (\h61 :> <<"INDEXED_X_INDIRECT", 2, 6, 0>>)
    @@ (\h71 :> <<"INDIRECT_Y_INDEXED", 2, 5, 1>>)

AND_INSTRUCTIONS ==
    (\h29 :> <<"IMMEDIATE", 2, 2, 0>>)
    @@ (\h25 :> <<"ZEROPAGE", 2, 3, 0>>)
    @@ (\h35 :> <<"ZEROPAGE_X_INDEXED", 2, 4, 0>>)
    @@ (\h2D :> <<"ABSOLUTE", 3, 4, 0>>)
    @@ (\h3D :> <<"ABSOLUTE_X_INDEXED", 3, 4, 1>>)
    @@ (\h39 :> <<"ABSOLUTE_Y_INDEXED", 3, 4, 1>>)
    @@ (\h21 :> <<"INDEXED_X_INDIRECT", 2, 6, 0>>)
    @@ (\h31 :> <<"INDIRECT_Y_INDEXED", 2, 5, 1>>)

ASL_INSTRUCTIONS ==
    (\h0A :> <<"ACCUMULATOR", 1, 2, 0>>)
    @@ (\h06 :> <<"ZEROPAGE", 2, 5, 0>>)
    @@ (\h16 :> <<"ZEROPAGE_X_INDEXED", 2, 6, 0>>)
    @@ (\h0E :> <<"ABSOLUTE", 3, 6, 0>>)
    @@ (\h1E :> <<"ABSOLUTE_X_INDEXED", 3, 7, 0>>)

BCC_INSTRUCTIONS ==
    (\h90 :> <<"RELATIVE", 2, 3, 1>>)

BCS_INSTRUCTIONS ==
    (\hB0 :> <<"RELATIVE", 2, 3, 1>>)

BEQ_INSTRUCTIONS ==
    (\hF0 :> <<"RELATIVE", 2, 3, 1>>)

BIT_INSTRUCTIONS ==
    (\h24 :> <<"ZEROPAGE", 2, 3, 0>>)
    @@ (\h2C :> <<"ABSOLUTE", 3, 4, 0>>)

BMI_INSTRUCTIONS ==
    (\h30 :> <<"RELATIVE", 2, 3, 1>>)

BNE_INSTRUCTIONS ==
    (\hD0 :> <<"RELATIVE", 2, 3, 1>>)

BPL_INSTRUCTIONS ==
    (\h10 :> <<"RELATIVE", 2, 3, 1>>)

BRK_INSTRUCTIONS ==
    (\h00 :> <<"IMPLIED", 1, 7, 0>>)

BVC_INSTRUCTIONS ==
    (\h50 :> <<"RELATIVE", 2, 3, 1>>)

BVS_INSTRUCTIONS ==
    (\h70 :> <<"RELATIVE", 2, 3, 1>>)

CLC_INSTRUCTIONS ==
    (\h18 :> <<"IMPLIED", 1, 2, 0>>)

CLD_INSTRUCTIONS ==
    (\hD8 :> <<"IMPLIED", 1, 2, 0>>)

CLI_INSTRUCTIONS ==
    (\h58 :> <<"IMPLIED", 1, 2, 0>>)

CLV_INSTRUCTIONS ==
    (\hB8 :> <<"IMPLIED", 1, 2, 0>>)

CMP_INSTRUCTIONS ==
    (\hC9 :> <<"IMMEDIATE", 2, 2, 0>>)
    @@ (\hC5 :> <<"ZEROPAGE", 2, 3, 0>>)
    @@ (\hD5 :> <<"ZEROPAGE_X_INDEXED", 2, 4, 0>>)
    @@ (\hCD :> <<"ABSOLUTE", 3, 4, 0>>)
    @@ (\hDD :> <<"ABSOLUTE_X_INDEXED", 3, 4, 1>>)
    @@ (\hD9 :> <<"ABSOLUTE_Y_INDEXED", 3, 4, 1>>)
    @@ (\hC1 :> <<"INDEXED_X_INDIRECT", 2, 6, 0>>)
    @@ (\hD1 :> <<"INDIRECT_Y_INDEXED", 2, 5, 1>>)

CPX_INSTRUCTIONS ==
    (\hE0 :> <<"IMMEDIATE", 2, 2, 0>>)
    @@ (\hE4 :> <<"ZEROPAGE", 2, 3, 0>>)
    @@ (\hEC :> <<"ABSOLUTE", 3, 4, 0>>)

CPY_INSTRUCTIONS ==
    (\hC0 :> <<"IMMEDIATE", 2, 2, 0>>)
    @@ (\hC4 :> <<"ZEROPAGE", 2, 3, 0>>)
    @@ (\hCC :> <<"ABSOLUTE", 3, 4, 0>>)

DEC_INSTRUCTIONS ==
    (\hC6 :> <<"ZEROPAGE", 2, 5, 0>>)
    @@ (\hD6 :> <<"ZEROPAGE_X_INDEXED", 2, 6, 0>>)
    @@ (\hCE :> <<"ABSOLUTE", 3, 3, 0>>)
    @@ (\hDE :> <<"ABSOLUTE_X_INDEXED", 3, 7, 0>>)

DEX_INSTRUCTIONS ==
    (\hCA :> <<"IMPLIED", 1, 2, 0>>)

DEY_INSTRUCTIONS ==
    (\h88 :> <<"IMPLIED", 1, 2, 0>>)

EOR_INSTRUCTIONS ==
    (\h49 :> <<"IMMEDIATE", 2, 2, 0>>)
    @@ (\h45 :> <<"ZEROPAGE", 2, 3, 0>>)
    @@ (\h55 :> <<"ZEROPAGE_X_INDEXED", 2, 4, 0>>)
    @@ (\h4D :> <<"ABSOLUTE", 3, 4, 0>>)
    @@ (\h5D :> <<"ABSOLUTE_X_INDEXED", 3, 4, 1>>)
    @@ (\h59 :> <<"ABSOLUTE_Y_INDEXED", 3, 4, 1>>)
    @@ (\h41 :> <<"INDEXED_X_INDIRECT", 2, 6, 0>>)
    @@ (\h51 :> <<"INDIRECT_Y_INDEXED", 2, 5, 1>>)

INC_INSTRUCTIONS ==
    (\hE6 :> <<"ZEROPAGE", 2, 5, 0>>)
    @@ (\hF6 :> <<"ZEROPAGE_X_INDEXED", 2, 6, 0>>)
    @@ (\hEE :> <<"ABSOLUTE", 3, 6, 0>>)
    @@ (\hFE :> <<"ABSOLUTE_X_INDEXED", 3, 7, 0>>)

INX_INSTRUCTIONS ==
    (\hE8 :> <<"IMPLIED", 1, 2, 0>>)

INY_INSTRUCTIONS ==
    (\hC8 :> <<"IMPLIED", 1, 2, 0>>)

JMP_INSTRUCTIONS ==
    (\h4C :> <<"ABSOLUTE", 3, 3, 0>>)
    @@ (\h6C :> <<"INDIRECT", 3, 5, 0>>)

JSR_INSTRUCTIONS ==
    (\h20 :> <<"ABSOLUTE", 3, 6, 0>>)

LDA_INSTRUCTIONS ==
    (\hA9 :> <<"IMMEDIATE", 2, 2, 0>>)
    @@ (\hA5 :> <<"ZEROPAGE", 2, 3, 0>>)
    @@ (\hB5 :> <<"ZEROPAGE_X_INDEXED", 2, 4, 0>>)
    @@ (\hAD :> <<"ABSOLUTE", 3, 4, 0>>)
    @@ (\hBD :> <<"ABSOLUTE_X_INDEXED", 3, 4, 1>>)
    @@ (\hB9 :> <<"ABSOLUTE_Y_INDEXED", 3, 4, 1>>)
    @@ (\hA1 :> <<"INDEXED_X_INDIRECT", 2, 6, 0>>)
    @@ (\hB1 :> <<"INDIRECT_Y_INDEXED", 2, 5, 1>>)

LDX_INSTRUCTIONS ==
    (\hA2 :> <<"IMMEDIATE", 2, 2, 0>>)
    @@ (\hA6 :> <<"ZEROPAGE", 2, 3, 0>>)
    @@ (\hB6 :> <<"ZEROPAGE_Y_INDEXED", 2, 4, 0>>)
    @@ (\hAE :> <<"ABSOLUTE", 3, 4, 0>>)
    @@ (\hBE :> <<"ABSOLUTE_Y_INDEXED", 3, 4, 1>>)

LDY_INSTRUCTIONS ==
    (\hA0 :> <<"IMMEDIATE", 2, 2, 0>>)
    @@ (\hA4 :> <<"ZEROPAGE", 2, 3, 0>>)
    @@ (\hB4 :> <<"ZEROPAGE_Y_INDEXED", 2, 4, 0>>)
    @@ (\hAC :> <<"ABSOLUTE", 3, 4, 0>>)
    @@ (\hBC :> <<"ABSOLUTE_Y_INDEXED", 3, 4, 1>>)

LSR_INSTRUCTIONS ==
    (\h4A :> <<"ACCUMULATOR", 1, 2, 0>>)
    @@ (\h46 :> <<"ZEROPAGE", 2, 5, 0>>)
    @@ (\h56 :> <<"ZEROPAGE_X_INDEXED", 2, 6, 0>>)
    @@ (\h4E :> <<"ABSOLUTE", 3, 6, 0>>)
    @@ (\h5E :> <<"ABSOLUTE_X_INDEXED", 3, 7, 0>>)

NOP_INSTRUCTIONS ==
    (\hEA :> <<"IMPLIED", 1, 2, 0>>)

ORA_INSTRUCTIONS ==
    (\h09 :> <<"IMMEDIATE", 2, 2, 0>>)
    @@ (\h05 :> <<"ZEROPAGE", 2, 3, 0>>)
    @@ (\h15 :> <<"ZEROPAGE_X_INDEXED", 2, 4, 0>>)
    @@ (\h0D :> <<"ABSOLUTE", 3, 4, 0>>)
    @@ (\h1D :> <<"ABSOLUTE_X_INDEXED", 3, 4, 1>>)
    @@ (\h19 :> <<"ABSOLUTE_Y_INDEXED", 3, 4, 1>>)
    @@ (\h01 :> <<"INDEXED_X_INDIRECT", 2, 6, 0>>)
    @@ (\h11 :> <<"INDIRECT_Y_INDEXED", 2, 5, 1>>)

PHA_INSTRUCTIONS ==
    (\h48 :> <<"IMPLIED", 1, 3, 0>>)

PHP_INSTRUCTIONS ==
    (\h08 :> <<"IMPLIED", 1, 3, 0>>)

PLA_INSTRUCTIONS ==
    (\h68 :> <<"IMPLIED", 1, 4, 0>>)

PLP_INSTRUCTIONS ==
    (\h28 :> <<"IMPLIED", 1, 4, 0>>)

ROL_INSTRUCTIONS ==
    (\h2A :> <<"ACCUMULATOR", 1, 2, 0>>)
    @@ (\h26 :> <<"ZEROPAGE", 2, 5, 0>>)
    @@ (\h36 :> <<"ZEROPAGE_X_INDEXED", 2, 6, 0>>)
    @@ (\h2E :> <<"ABSOLUTE", 3, 6, 0>>)
    @@ (\h3E :> <<"ABSOLUTE_X_INDEXED", 3, 7, 0>>)

ROR_INSTRUCTIONS ==
    (\h6A :> <<"ACCUMULATOR", 1, 2, 0>>)
    @@ (\h66 :> <<"ZEROPAGE", 2, 5, 0>>)
    @@ (\h76 :> <<"ZEROPAGE_X_INDEXED", 2, 6, 0>>)
    @@ (\h6E :> <<"ABSOLUTE", 3, 6, 0>>)
    @@ (\h7E :> <<"ABSOLUTE_X_INDEXED", 3, 7, 0>>)

RTI_INSTRUCTIONS ==
    (\h40 :> <<"IMPLIED", 1, 6, 0>>)

RTS_INSTRUCTIONS ==
    (\h60 :> <<"IMPLIED", 1, 6, 0>>)

SBC_INSTRUCTIONS ==
    (\hE9 :> <<"IMMEDIATE", 2, 2, 0>>)
    @@ (\hE5 :> <<"ZEROPAGE", 2, 3, 0>>)
    @@ (\hF5 :> <<"ZEROPAGE_X_INDEXED", 2, 4, 0>>)
    @@ (\hED :> <<"ABSOLUTE", 3, 4, 0>>)
    @@ (\hFD :> <<"ABSOLUTE_X_INDEXED", 3, 4, 1>>)
    @@ (\hF9 :> <<"ABSOLUTE_Y_INDEXED", 3, 4, 1>>)
    @@ (\hE1 :> <<"INDEXED_X_INDIRECT", 2, 6, 0>>)
    @@ (\hF1 :> <<"INDIRECT_Y_INDEXED", 2, 5, 1>>)

SEC_INSTRUCTIONS ==
    (\h38 :> <<"IMPLIED", 1, 2, 0>>)

SED_INSTRUCTIONS ==
    (\hF8 :> <<"IMPLIED", 1, 2, 0>>)

SEI_INSTRUCTIONS ==
    (\h78 :> <<"IMPLIED", 1, 2, 0>>)

STA_INSTRUCTIONS ==
    (\h85 :> <<"ZEROPAGE", 2, 3, 0>>)
    @@ (\h95 :> <<"ZEROPAGE_X_INDEXED", 2, 4, 0>>)
    @@ (\h8D :> <<"ABSOLUTE", 3, 4, 0>>)
    @@ (\h9D :> <<"ABSOLUTE_X_INDEXED", 3, 5, 0>>)
    @@ (\h99 :> <<"ABSOLUTE_Y_INDEXED", 3, 5, 0>>)
    @@ (\h81 :> <<"INDEXED_X_INDIRECT", 2, 6, 0>>)
    @@ (\h91 :> <<"INDIRECT_Y_INDEXED", 2, 6, 0>>)

STX_INSTRUCTIONS ==
    (\h86 :> <<"ZEROPAGE", 2, 3, 0>>)
    @@ (\h96 :> <<"ZEROPAGE_Y_INDEXED", 2, 4, 0>>)
    @@ (\h8E :> <<"ABSOLUTE", 3, 4, 0>>)

STY_INSTRUCTIONS ==
    (\h84 :> <<"ZEROPAGE", 2, 3, 0>>)
    @@ (\h94 :> <<"ZEROPAGE_X_INDEXED", 2, 4, 0>>)
    @@ (\h8C :> <<"ABSOLUTE", 3, 4, 0>>)

TAX_INSTRUCTIONS ==
    (\hAA :> <<"IMPLIED", 1, 2, 0>>)

TAY_INSTRUCTIONS ==
    (\hA8 :> <<"IMPLIED", 1, 2, 0>>)

TSX_INSTRUCTIONS ==
    (\hBA :> <<"IMPLIED", 1, 2, 0>>)

TXA_INSTRUCTIONS ==
    (\h8A :> <<"IMPLIED", 1, 2, 0>>)

TXS_INSTRUCTIONS ==
    (\h9A :> <<"IMPLIED", 1, 2, 0>>)

TYA_INSTRUCTIONS ==
    (\h98 :> <<"IMPLIED", 1, 2, 0>>)

(***************************************************************************)
(* The machine an execute routine works on: the MCU's registers, the       *)
(* memory, and the exception the routine raised (NoError if none).         *)
(***************************************************************************)
Raise(m, e) == [m EXCEPT !.err = e]

B2I(b) == IF b THEN 1 ELSE 0

\* mcu.sr.<flag>
Flag(m, bit) == get_bit_value(m.sr, bit)

RECURSIVE SetFlags(_, _)
\* The flag writes ws = << <<bit, val>>, ... >> applied to sr in order.
SetFlags(value, ws) ==
    IF ws = <<>> THEN value
    ELSE SetFlags(set_bit_value(value, Head(ws)[1], Head(ws)[2]), Tail(ws))

\* memory.write_byte(address, value) on the machine
WriteMem(m, address, value) ==
    IF access_err(address) # NoError THEN Raise(m, access_err(address))
    ELSE [m EXCEPT !.mem = write_byte(m.mem, address, value)]

\* <register>.value = val for a register with the given mask
AssignOK(val) == value_set_ok(val)

(***************************************************************************)
(* mos6502/assembly: the execute routines                                  *)
(***************************************************************************)
\* ADC that forgets the carry in.
ADC_execute_NoCarryIn(opcode, bytez, m) ==
    LET mode == ADC_INSTRUCTIONS[opcode][1]
        r == calculate_operand(mode, bytez, m)
        operand == r.operand
        val == signed(m.a) + operand
        sr1 == SetFlags(m.sr, << <<BitC, 0>>, <<BitZ, 0>>, <<BitN, 0>>, <<BitV, 0>>,
                   <<BitN, B2I(PyBit(val, 7) = 1)>>,
                   <<BitZ, B2I(val = 0)>>,
                   <<BitC, B2I(val > 255)>>,
                   <<BitV, B2I((1 - Xor1(PyBit(m.a, 7), PyBit(operand, 7)))
                               * Xor1(PyBit(m.a, 7), PyBit(val, 7)) = 1)>> >>)
    IN  IF r.err # NoError THEN Raise(m, r.err)
        ELSE IF ~AssignOK(val) THEN Raise([m EXCEPT !.sr = sr1], "AssertionError")
        ELSE [m EXCEPT !.sr = sr1, !.a = value_set(val, MASK8)]

\* ADC whose overflow test lost the complement of A ^ M.
ADC_execute_NoComplement(opcode, bytez, m) ==
    LET mode == ADC_INSTRUCTIONS[opcode][1]
        r == calculate_operand(mode, bytez, m)
        operand == r.operand
        val == signed(m.a) + operand + Flag(m, BitC)
        sr1 == SetFlags(m.sr, << <<BitC, 0>>, <<BitZ, 0>>, <<BitN, 0>>, <<BitV, 0>>,
                   <<BitN, B2I(PyBit(val, 7) = 1)>>,
                   <<BitZ, B2I(val = 0)>>,
                   <<BitC, B2I(val > 255)>>,
                   <<BitV, B2I(Xor1(PyBit(m.a, 7), PyBit(operand, 7))
                               * Xor1(PyBit(m.a, 7), PyBit(val, 7)) = 1)>> >>)
    IN  IF r.err # NoError THEN Raise(m, r.err)
        ELSE IF ~AssignOK(val) THEN Raise([m EXCEPT !.sr = sr1], "AssertionError")
        ELSE [m EXCEPT !.sr = sr1, !.a = value_set(val, MASK8)]

ADC_execute(opcode, bytez, m) ==
    LET mode == ADC_INSTRUCTIONS[opcode][1]
        r == calculate_operand(mode, bytez, m)
        operand == r.operand
        val == signed(m.a) + operand + Flag(m, BitC)
        sr1 == SetFlags(m.sr, << <<BitC, 0>>, <<BitZ, 0>>, <<BitN, 0>>, <<BitV, 0>>,
                   <<BitN, B2I(PyBit(val, 7) = 1)>>,
                   <<BitZ, B2I(val = 0)>>,
                   <<BitC, B2I(val > 255)>>,
                   <<BitV, B2I((1 - Xor1(PyBit(m.a, 7), PyBit(operand, 7)))
                               * Xor1(PyBit(m.a, 7), PyBit(val, 7)) = 1)>> >>)
    IN  IF r.err # NoError THEN Raise(m, r.err)
        ELSE IF ~AssignOK(val) THEN Raise([m EXCEPT !.sr = sr1], "AssertionError")
        ELSE [m EXCEPT !.sr = sr1, !.a = value_set(val, MASK8)]

AND_execute(opcode, bytez, m) ==
    LET mode == AND_INSTRUCTIONS[opcode][1]
        r == calculate_operand(mode, bytez, m)
        val == PyAnd(m.a, r.operand)
        a1 == value_set(val, MASK8)
    IN  IF r.err # NoError THEN Raise(m, r.err)
        ELSE [m EXCEPT !.a = a1,
                       !.sr = SetFlags(m.sr, << <<BitN, B2I(signed(a1) < 0)>>,
                                                <<BitZ, B2I(val = 0)>> >>)]

ASL_execute(opcode, bytez, m) ==
    LET mode == ASL_INSTRUCTIONS[opcode][1]
        r == calculate_operand(mode, bytez, m)
        val == (r.operand * 2) % 256
        m1 == IF r.address # None THEN WriteMem(m, r.address, val)
              ELSE [m EXCEPT !.a = value_set(val, MASK8)]
    IN  IF r.err # NoError THEN Raise(m, r.err)
        ELSE IF m1.err # NoError THEN m1
        ELSE [m1 EXCEPT !.sr = SetFlags(m.sr, << <<BitN, B2I(val > 127)>>,
                                                 <<BitZ, B2I(val = 0)>>,
                                                 <<BitC, B2I(val > 255)>> >>)]

BCC_execute(opcode, bytez, m) ==
    LET mode == BCC_INSTRUCTIONS[opcode][1]
        r == calculate_operand(mode, bytez, m)
    IN  IF r.err # NoError THEN Raise(m, r.err)
        ELSE IF Flag(m, BitC) = 0
        THEN IF ~AssignOK(r.address) THEN Raise(m, "AssertionError")
             ELSE [m EXCEPT !.pc = value_set(r.address, MASK16)]
        ELSE m

BCS_execute(opcode, bytez, m) ==
    LET mode == BCS_INSTRUCTIONS[opcode][1]
        r == calculate_operand(mode, bytez, m)
    IN  IF r.err # NoError THEN Raise(m, r.err)
        ELSE IF Flag(m, BitC) = 1
        THEN IF ~AssignOK(r.address) THEN Raise(m, "AssertionError")
             ELSE [m EXCEPT !.pc = value_set(r.address, MASK16)]
        ELSE m

BEQ_execute(opcode, bytez, m) ==
    LET mode == BEQ_INSTRUCTIONS[opcode][1]
        r == calculate_operand(mode, bytez, m)
    IN  IF r.err # NoError THEN Raise(m, r.err)
        ELSE IF Flag(m, BitZ) = 1
        THEN IF ~AssignOK(r.address) THEN Raise(m, "AssertionError")
             ELSE [m EXCEPT !.pc = value_set(r.address, MASK16)]
        ELSE m

BIT_execute(opcode, bytez, m) ==
    LET mode == BIT_INSTRUCTIONS[opcode][1]
        r == calculate_operand(mode, bytez, m)
        val == PyAnd(m.a, r.operand)
        m7 == B2I(PyBit(val, 7) = 1)
        m6 == B2I(PyBit(val, 6) = 1)
    IN  IF r.err # NoError THEN Raise(m, r.err)
        ELSE [m EXCEPT !.sr = SetFlags(m.sr, << <<BitN, m7>>, <<BitV, m6>>,
                                                <<BitZ, B2I(val = 0)>> >>)]

BMI_execute(opcode, bytez, m) ==
    LET mode == BMI_INSTRUCTIONS[opcode][1]
        r == calculate_operand(mode, bytez, m)
    IN  IF r.err # NoError THEN Raise(m, r.err)
        ELSE IF Flag(m, BitN) = 1
        THEN IF ~AssignOK(r.address) THEN Raise(m, "AssertionError")
             ELSE [m EXCEPT !.pc = value_set(r.address, MASK16)]
        ELSE m

BNE_execute(opcode, bytez, m) ==
    LET mode == BNE_INSTRUCTIONS[opcode][1]
        r == calculate_operand(mode, bytez, m)
    IN  IF r.err # NoError THEN Raise(m, r.err)
        ELSE IF Flag(m, BitZ) = 0
        THEN IF ~AssignOK(r.address) THEN Raise(m, "AssertionError")
             ELSE [m EXCEPT !.pc = value_set(r.address, MASK16)]
        ELSE m

BPL_execute(opcode, bytez, m) ==
    LET mode == BPL_INSTRUCTIONS[opcode][1]
        r == calculate_operand(mode, bytez, m)
    IN  IF r.err # NoError THEN Raise(m, r.err)
        ELSE IF Flag(m, BitN) = 0
        THEN IF ~AssignOK(r.address) THEN Raise(m, "AssertionError")
             ELSE [m EXCEPT !.pc = value_set(r.address, MASK16)]
        ELSE m

BRK_execute(opcode, bytez, m) ==
    [m EXCEPT !.sr = set_bit_value(m.sr, BitB, 1)]

BVC_execute(opcode, bytez, m) ==
    LET mode == BVC_INSTRUCTIONS[opcode][1]
        r == calculate_operand(mode, bytez, m)
    IN  IF r.err # NoError THEN Raise(m, r.err)
        ELSE IF Flag(m, BitV) = 0
        THEN IF ~AssignOK(r.address) THEN Raise(m, "AssertionError")
             ELSE [m EXCEPT !.pc = value_set(r.address, MASK16)]
        ELSE m

BVS_execute(opcode, bytez, m) ==
    LET mode == BVS_INSTRUCTIONS[opcode][1]
        r == calculate_operand(mode, bytez, m)
    IN  IF r.err # NoError THEN Raise(m, r.err)
        ELSE IF Flag(m, BitV) = 1
        THEN IF ~AssignOK(r.address) THEN Raise(m, "AssertionError")
             ELSE [m EXCEPT !.pc = value_set(r.address, MASK16)]
        ELSE m

\* CLC that clears the whole status register down to its unused bit.
CLC_execute_ClearsStatus(opcode, bytez, m) == [m EXCEPT !.sr = SR_value_set(0)]

CLC_execute(opcode, bytez, m) == [m EXCEPT !.sr = set_bit_value(m.sr, BitC, 0)]

CLD_execute(opcode, bytez, m) == [m EXCEPT !.sr = set_bit_value(m.sr, BitD, 0)]

CLI_execute(opcode, bytez, m) == [m EXCEPT !.sr = set_bit_value(m.sr, BitI, 0)]

CLV_execute(opcode, bytez, m) == [m EXCEPT !.sr = set_bit_value(m.sr, BitV, 0)]

\* A compare that sets the carry only when the operand is smaller.
Compare_StrictCarry(reg, operand, value) ==
    LET val == reg - operand
        sr1 == SetFlags(value, << <<BitN, 0>>, <<BitZ, 0>>, <<BitC, 0>>,
                                  <<BitN, B2I(PyBit(val, 7) = 1)>> >>)
    IN  IF val = 0 THEN SetFlags(sr1, << <<BitZ, 1>> >>)
        ELSE IF operand < reg THEN set_bit_value(sr1, BitC, 1)
        ELSE sr1

\* The body shared, text for text, by CMP, CPX and CPY on their register.
Compare(reg, operand, value) ==
    LET val == reg - operand
        sr1 == SetFlags(value, << <<BitN, 0>>, <<BitZ, 0>>, <<BitC, 0>>,
                                  <<BitN, B2I(PyBit(val, 7) = 1)>> >>)
    IN  IF val = 0 THEN SetFlags(sr1, << <<BitZ, 1>>, <<BitC, 1>> >>)
        ELSE IF operand < reg THEN set_bit_value(sr1, BitC, 1)
        ELSE sr1

CMP_execute(opcode, bytez, m) ==
    LET mode == CMP_INSTRUCTIONS[opcode][1]
        r == calculate_operand(mode, bytez, m)
    IN  IF r.err # NoError THEN Raise(m, r.err)
        ELSE [m EXCEPT !.sr = Compare(m.a, r.operand, m.sr)]

CPX_execute(opcode, bytez, m) ==
    LET mode == CPX_INSTRUCTIONS[opcode][1]
        r == calculate_operand(mode, bytez, m)
    IN  IF r.err # NoError THEN Raise(m, r.err)
        ELSE [m EXCEPT !.sr = Compare(m.x, r.operand, m.sr)]

CPY_execute(opcode, bytez, m) ==
    LET mode == CPY_INSTRUCTIONS[opcode][1]
        r == calculate_operand(mode, bytez, m)
    IN  IF r.err # NoError THEN Raise(m, r.err)
        ELSE [m EXCEPT !.sr = Compare(m.y, r.operand, m.sr)]

DEC_execute(opcode, bytez, m) ==
    LET mode == DEC_INSTRUCTIONS[opcode][1]
        r == calculate_operand(mode, bytez, m)
        val == r.operand - 1
        m1 == WriteMem(m, r.address, val)
    IN  IF r.err # NoError THEN Raise(m, r.err)
        ELSE IF m1.err # NoError THEN m1
        ELSE [m1 EXCEPT !.sr = SetFlags(m.sr, << <<BitN, B2I(val < 0)>>,
                                                 <<BitZ, B2I(val = 0)>> >>)]

DEX_execute(opcode, bytez, m) ==
    LET val == m.x - 1
        x1 == value_set(val, MASK8)
    IN  IF ~AssignOK(val) THEN Raise(m, "AssertionError")
        ELSE [m EXCEPT !.x = x1,
                       !.sr = SetFlags(m.sr, << <<BitN, B2I(signed(x1) < 0)>>,
                                                <<BitZ, B2I(val = 0)>> >>)]

DEY_execute(opcode, bytez, m) ==
    LET val == m.y - 1
        y1 == value_set(val, MASK8)
    IN  IF ~AssignOK(val) THEN Raise(m, "AssertionError")
        ELSE [m EXCEPT !.y = y1,
                       !.sr = SetFlags(m.sr, << <<BitN, B2I(signed(y1) < 0)>>,
                                                <<BitZ, B2I(val = 0)>> >>)]

EOR_execute(opcode, bytez, m) ==
    LET mode == EOR_INSTRUCTIONS[opcode][1]
        r == calculate_operand(mode, bytez, m)
        val == PyXor(m.a, r.operand)
        a1 == value_set(val, MASK8)
    IN  IF r.err # NoError THEN Raise(m, r.err)
        ELSE [m EXCEPT !.a = a1,
                       !.sr = SetFlags(m.sr, << <<BitN, B2I(signed(a1) < 0)>>,
                                                <<BitZ, B2I(val = 0)>> >>)]

INC_execute(opcode, bytez, m) ==
    LET mode == INC_INSTRUCTIONS[opcode][1]
        r == calculate_operand(mode, bytez, m)
        val == r.operand + 1
        m1 == WriteMem(m, r.address, val)
    IN  IF r.err # NoError THEN Raise(m, r.err)
        ELSE IF m1.err # NoError THEN m1
        ELSE [m1 EXCEPT !.sr = SetFlags(m.sr, << <<BitN, B2I(val < 0)>>,
                                                 <<BitZ, B2I(val = 0)>> >>)]

\* INX that stores X + 1 in the register as it is, without the register's
\* mask.
INX_execute_Unmasked(opcode, bytez, m) ==
    LET val == m.x + 1
    IN  [m EXCEPT !.x = val,
                  !.sr = SetFlags(m.sr, << <<BitN, B2I(val > 127)>>,
                                           <<BitZ, B2I(val = 0)>> >>)]

INX_execute(opcode, bytez, m) ==
    LET val == m.x + 1
        x1 == value_set(val, MASK8)
    IN  [m EXCEPT !.x = x1,
                  !.sr = SetFlags(m.sr, << <<BitN, B2I(signed(x1) < 0)>>,
                                           <<BitZ, B2I(val = 0)>> >>)]

INY_execute(opcode, bytez, m) ==
    LET val == m.y + 1
        y1 == value_set(val, MASK8)
    IN  [m EXCEPT !.y = y1,
                  !.sr = SetFlags(m.sr, << <<BitN, B2I(signed(y1) < 0)>>,
                                           <<BitZ, B2I(val = 0)>> >>)]

JMP_execute(opcode, bytez, m) ==
    LET mode == JMP_INSTRUCTIONS[opcode][1]
        r == calculate_operand(mode, bytez, m)
    IN  IF r.err # NoError THEN Raise(m, r.err)
        ELSE [m EXCEPT !.pc = value_set(r.address, MASK16)]

\* JSR that pushes the low byte of the return address before the high byte.
JSR_execute_LowFirst(opcode, bytez, m) ==
    LET mode == JSR_INSTRUCTIONS[opcode][1]
        r == calculate_operand(mode, bytez, m)
        ret_address == m.pc - 1
        low == ret_address % 256
        high == (ret_address \div 256) % 256
        m1 == WriteMem(m, m.sp + sp_base, low)
        m2 == [m1 EXCEPT !.sp = value_set((m1.sp - 1) % 256, MASK16)]
        m3 == WriteMem(m2, m2.sp + sp_base, high)
        m4 == [m3 EXCEPT !.sp = value_set((m3.sp - 1) % 256, MASK16)]
    IN  IF r.err # NoError THEN Raise(m, r.err)
        ELSE IF m1.err # NoError THEN m1
        ELSE IF m3.err # NoError THEN m3
        ELSE [m4 EXCEPT !.pc = value_set(r.address, MASK16)]

JSR_execute(opcode, bytez, m) ==
    LET mode == JSR_INSTRUCTIONS[opcode][1]
        r == calculate_operand(mode, bytez, m)
        ret_address == m.pc - 1
        low == ret_address % 256
        high == (ret_address \div 256) % 256
        m1 == WriteMem(m, m.sp + sp_base, high)
        m2 == [m1 EXCEPT !.sp = value_set((m1.sp - 1) % 256, MASK16)]
        m3 == WriteMem(m2, m2.sp + sp_base, low)
        m4 == [m3 EXCEPT !.sp = value_set((m3.sp - 1) % 256, MASK16)]
    IN  IF r.err # NoError THEN Raise(m, r.err)
        ELSE IF m1.err # NoError THEN m1
        ELSE IF m3.err # NoError THEN m3
        ELSE [m4 EXCEPT !.pc = value_set(r.address, MASK16)]

LDA_execute(opcode, bytez, m) ==
    LET mode == LDA_INSTRUCTIONS[opcode][1]
        r == calculate_operand(mode, bytez, m)
        a1 == value_set(r.operand, MASK8)
    IN  IF r.err # NoError THEN Raise(m, r.err)
        ELSE [m EXCEPT !.a = a1,
                       !.sr = SetFlags(m.sr, << <<BitN, B2I(signed(a1) < 0)>>,
                                                <<BitZ, B2I(r.operand = 0)>> >>)]

LDX_execute(opcode, bytez, m) ==
    LET mode == LDX_INSTRUCTIONS[opcode][1]
        r == calculate_operand(mode, bytez, m)
        x1 == value_set(r.operand, MASK8)
    IN  IF r.err # NoError THEN Raise(m, r.err)
        ELSE [m EXCEPT !.x = x1,
                       !.sr = SetFlags(m.sr, << <<BitN, B2I(signed(x1) < 0)>>,
                                                <<BitZ, B2I(r.operand = 0)>> >>)]

LDY_execute(opcode, bytez, m) ==
    LET mode == LDY_INSTRUCTIONS[opcode][1]
        r == calculate_operand(mode, bytez, m)
        y1 == value_set(r.operand, MASK8)
    IN  IF r.err # NoError THEN Raise(m, r.err)
        ELSE [m EXCEPT !.y = y1,
                       !.sr = SetFlags(m.sr, << <<BitN, B2I(signed(y1) < 0)>>,
                                                <<BitZ, B2I(r.operand = 0)>> >>)]

LSR_execute(opcode, bytez, m) ==
    LET mode == LSR_INSTRUCTIONS[opcode][1]
        r == calculate_operand(mode, bytez, m)
        carry == r.operand % 2
        val == r.operand \div 2
        m1 == IF opcode = \h4A THEN [m EXCEPT !.a = value_set(val, MASK8)]
              ELSE WriteMem(m, r.address, val)
    IN  IF r.err # NoError THEN Raise(m, r.err)
        ELSE IF m1.err # NoError THEN m1
        ELSE [m1 EXCEPT !.sr = SetFlags(m.sr, << <<BitZ, B2I(val = 0)>>,
                                                 <<BitC, carry>> >>)]

NOP_execute(opcode, bytez, m) == m

ORA_execute(opcode, bytez, m) ==
    LET mode == ORA_INSTRUCTIONS[opcode][1]
        r == calculate_operand(mode, bytez, m)
        val == PyOr(m.a, r.operand)
        a1 == value_set(val, MASK8)
    IN  IF r.err # NoError THEN Raise(m, r.err)
        ELSE [m EXCEPT !.a = a1,
                       !.sr = SetFlags(m.sr, << <<BitN, B2I(signed(a1) < 0)>>,
                                                <<BitZ, B2I(val = 0)>> >>)]

PHA_execute(opcode, bytez, m) ==
    LET m1 == WriteMem(m, m.sp + sp_base, m.a)
    IN  IF m1.err # NoError THEN m1
        ELSE [m1 EXCEPT !.sp = value_set((m.sp - 1) % 256, MASK16)]

PHP_execute(opcode, bytez, m) ==
    LET m1 == WriteMem(m, m.sp + sp_base, m.sr)
    IN  IF m1.err # NoError THEN m1
        ELSE [m1 EXCEPT !.sp = value_set((m.sp - 1) % 256, MASK16)]

\* PLA that reads the stack cell before it increments SP.
PLA_execute_ReadFirst(opcode, bytez, m) ==
    LET sp1 == value_set((m.sp + 1) % 256, MASK16)
        m1 == [m EXCEPT !.sp = sp1]
        a1 == value_set(read_byte(m.mem, m.sp + sp_base), MASK8)
    IN  IF access_err(m.sp + sp_base) # NoError
        THEN Raise(m, access_err(m.sp + sp_base))
        ELSE [m1 EXCEPT !.a = a1,
                        !.sr = SetFlags(m.sr, << <<BitN, B2I(signed(a1) < 0)>>,
                                                 <<BitZ, B2I(a1 = 0)>> >>)]

PLA_execute(opcode, bytez, m) ==
    LET sp1 == value_set((m.sp + 1) % 256, MASK16)
        m1 == [m EXCEPT !.sp = sp1]
        a1 == value_set(read_byte(m.mem, sp1 + sp_base), MASK8)
    IN  IF access_err(sp1 + sp_base) # NoError
        THEN Raise(m1, access_err(sp1 + sp_base))
        ELSE [m1 EXCEPT !.a = a1,
                        !.sr = SetFlags(m.sr, << <<BitN, B2I(signed(a1) < 0)>>,
                                                 <<BitZ, B2I(a1 = 0)>> >>)]

PLP_execute(opcode, bytez, m) ==
    LET sp1 == value_set((m.sp + 1) % 256, MASK16)
        m1 == [m EXCEPT !.sp = sp1]
    IN  IF access_err(sp1 + sp_base) # NoError
        THEN Raise(m1, access_err(sp1 + sp_base))
        ELSE [m1 EXCEPT !.sr = SR_value_set(read_byte(m.mem, sp1 + sp_base))]

\* ROL that shifts a 0 into bit 0 instead of the carry.
ROL_execute_NoCarryIn(opcode, bytez, m) ==
    LET mode == ROL_INSTRUCTIONS[opcode][1]
        r == calculate_operand(mode, bytez, m)
        c_flag == (r.operand % 256) \div 128
        operand == (r.operand * 2) % 256
        m1 == IF r.address # None THEN WriteMem(m, r.address, operand)
              ELSE [m EXCEPT !.a = value_set(operand, MASK8)]
    IN  IF r.err # NoError THEN Raise(m, r.err)
        ELSE IF m1.err # NoError THEN m1
        ELSE [m1 EXCEPT !.sr = SetFlags(m.sr,
                   << <<BitN, B2I(to_signed_byte(operand) < 0)>>,
                      <<BitZ, B2I(operand = 0)>>,
                      <<BitC, c_flag>> >>)]

ROL_execute(opcode, bytez, m) ==
    LET mode == ROL_INSTRUCTIONS[opcode][1]
        r == calculate_operand(mode, bytez, m)
        c_flag == (r.operand % 256) \div 128
        operand == PyOr(r.operand * 2, Flag(m, BitC)) % 256
        m1 == IF r.address # None THEN WriteMem(m, r.address, operand)
              ELSE [m EXCEPT !.a = value_set(operand, MASK8)]
    IN  IF r.err # NoError THEN Raise(m, r.err)
        ELSE IF m1.err # NoError THEN m1
        ELSE [m1 EXCEPT !.sr = SetFlags(m.sr,
                   << <<BitN, B2I(to_signed_byte(operand) < 0)>>,
                      <<BitZ, B2I(operand = 0)>>,
                      <<BitC, c_flag>> >>)]

ROR_execute(opcode, bytez, m) ==
    LET mode == ROR_INSTRUCTIONS[opcode][1]
        r == calculate_operand(mode, bytez, m)
        c_flag == r.operand % 2
        operand == PyOr(r.operand \div 2, Flag(m, BitC) * 128)
        m1 == IF r.address # None THEN WriteMem(m, r.address, operand)
              ELSE [m EXCEPT !.a = value_set(operand, MASK8)]
    IN  IF r.err # NoError THEN Raise(m, r.err)
        ELSE IF m1.err # NoError THEN m1
        ELSE [m1 EXCEPT !.sr = SetFlags(m.sr, << <<BitN, B2I(operand < 0)>>,
                                                 <<BitZ, B2I(operand = 0)>>,
                                                 <<BitC, c_flag>> >>)]

RTI_execute(opcode, bytez, m) ==
    LET m1 == [m EXCEPT !.sr = SR_value_set(read_byte(m.mem, m.sp))]
        m2 == [m1 EXCEPT !.sp = value_set(m.sp + 1, MASK16)]
        m3 == [m2 EXCEPT !.pc = value_set(read_byte(m.mem, m2.sp), MASK16)]
        m4 == [m3 EXCEPT !.sp = value_set(m2.sp + 1, MASK16)]
    IN  IF access_err(m.sp) # NoError THEN Raise(m, access_err(m.sp))
        ELSE IF access_err(m2.sp) # NoError THEN Raise(m2, access_err(m2.sp))
        ELSE [m4 EXCEPT !.sr = set_bit_value(m4.sr, BitB, 1)]

\* RTS that returns to the pulled address itself.
RTS_execute_NoIncrement(opcode, bytez, m) ==
    LET sp1 == value_set((m.sp + 1) % 256, MASK16)
        m1 == [m EXCEPT !.sp = sp1]
        lo == read_byte(m.mem, sp1 + sp_base)
        sp2 == value_set((sp1 + 1) % 256, MASK16)
        m2 == [m1 EXCEPT !.sp = sp2]
        val == PyOr(lo, read_byte(m.mem, sp2 + sp_base) * 256)
    IN  IF access_err(sp1 + sp_base) # NoError
        THEN Raise(m1, access_err(sp1 + sp_base))
        ELSE IF access_err(sp2 + sp_base) # NoError
        THEN Raise(m2, access_err(sp2 + sp_base))
        ELSE [m2 EXCEPT !.pc = value_set(val, MASK16)]

RTS_execute(opcode, bytez, m) ==
    LET sp1 == value_set((m.sp + 1) % 256, MASK16)
        m1 == [m EXCEPT !.sp = sp1]
        lo == read_byte(m.mem, sp1 + sp_base)
        sp2 == value_set((sp1 + 1) % 256, MASK16)
        m2 == [m1 EXCEPT !.sp = sp2]
        val == PyOr(lo, read_byte(m.mem, sp2 + sp_base) * 256)
    IN  IF access_err(sp1 + sp_base) # NoError
        THEN Raise(m1, access_err(sp1 + sp_base))
        ELSE IF access_err(sp2 + sp_base) # NoError
        THEN Raise(m2, access_err(sp2 + sp_base))
        ELSE [m2 EXCEPT !.pc = value_set(val + 1, MASK16)]

SBC_execute(opcode, bytez, m) ==
    LET mode == SBC_INSTRUCTIONS[opcode][1]
        r == calculate_operand(mode, bytez, m)
        operand == r.operand
        val == signed(m.a) + ((-operand - 1) % 256) + Flag(m, BitC)
        sr1 == SetFlags(m.sr, << <<BitC, 0>>, <<BitZ, 0>>, <<BitN, 0>>, <<BitV, 0>>,
                   <<BitN, B2I(PyBit(val, 7) = 1)>>,
                   <<BitZ, B2I(val % 256 = 0)>>,
                   <<BitC, B2I(val > 255)>>,
                   <<BitV, B2I((1 - Xor1(PyBit(m.a, 7), PyBit(operand, 7)))
                               * Xor1(PyBit(m.a, 7), PyBit(val, 7)) = 1)>> >>)
    IN  IF r.err # NoError THEN Raise(m, r.err)
        ELSE IF ~AssignOK(val) THEN Raise([m EXCEPT !.sr = sr1], "AssertionError")
        ELSE [m EXCEPT !.sr = sr1, !.a = value_set(val, MASK8)]

SEC_execute(opcode, bytez, m) == [m EXCEPT !.sr = set_bit_value(m.sr, BitC, 1)]

SED_execute(opcode, bytez, m) == [m EXCEPT !.sr = set_bit_value(m.sr, BitD, 1)]

SEI_execute(opcode, bytez, m) == [m EXCEPT !.sr = set_bit_value(m.sr, BitI, 1)]

STA_execute(opcode, bytez, m) ==
    LET mode == STA_INSTRUCTIONS[opcode][1]
        r == calculate_operand(mode, bytez, m)
    IN  IF r.err # NoError THEN Raise(m, r.err)
        ELSE WriteMem(m, r.address, m.a)

STX_execute(opcode, bytez, m) ==
    LET mode == STX_INSTRUCTIONS[opcode][1]
        r == calculate_operand(mode, bytez, m)
    IN  IF r.err # NoError THEN Raise(m, r.err)
        ELSE WriteMem(m, r.address, m.x)

STY_execute(opcode, bytez, m) ==
    LET mode == STY_INSTRUCTIONS[opcode][1]
        r == calculate_operand(mode, bytez, m)
    IN  IF r.err # NoError THEN Raise(m, r.err)
        ELSE WriteMem(m, r.address, m.y)

TAX_execute(opcode, bytez, m) ==
    LET x1 == value_set(m.a, MASK8)
    IN  [m EXCEPT !.x = x1,
                  !.sr = SetFlags(m.sr, << <<BitN, B2I(signed(x1) < 0)>>,
                                           <<BitZ, B2I(x1 = 0)>> >>)]

TAY_execute(opcode, bytez, m) ==
    LET y1 == value_set(m.a, MASK8)
    IN  [m EXCEPT !.y = y1,
                  !.sr = SetFlags(m.sr, << <<BitN, B2I(signed(y1) < 0)>>,
                                           <<BitZ, B2I(y1 = 0)>> >>)]

TSX_execute(opcode, bytez, m) ==
    LET x1 == value_set(m.sp, MASK8)
    IN  [m EXCEPT !.x = x1,
                  !.sr = SetFlags(m.sr, << <<BitN, B2I(signed(x1) < 0)>>,
                                           <<BitZ, B2I(x1 = 0)>> >>)]

TXA_execute(opcode, bytez, m) ==
    LET a1 == value_set(m.x, MASK8)
    IN  [m EXCEPT !.a = a1,
                  !.sr = SetFlags(m.sr, << <<BitN, B2I(signed(a1) < 0)>>,
                                           <<BitZ, B2I(a1 = 0)>> >>)]

TXS_execute(opcode, bytez, m) == [m EXCEPT !.sp = value_set(m.x, MASK16)]

TYA_execute(opcode, bytez, m) ==
    LET a1 == value_set(m.y, MASK8)
    IN  [m EXCEPT !.a = a1,
                  !.sr = SetFlags(m.sr, << <<BitN, B2I(signed(a1) < 0)>>,
                                           <<BitZ, B2I(a1 = 0)>> >>)]

(***************************************************************************)
(* mos6502/assembly: the opcode dispatch                                    *)
(***************************************************************************)
\* The list of instruction classes, named by their mnemonic.
clazz ==
    << "ADC", "AND", "ASL", "BCC", "BCS", "BEQ", "BIT", "BMI",
       "BNE", "BPL", "BRK", "BVC", "BVS", "CLC", "CLD", "CLI",
       "CLV", "CMP", "CPX", "CPY", "DEC", "DEX", "DEY", "EOR",
       "INC", "INX", "INY", "JMP", "JSR", "LDA", "LDX", "LDY",
       "LSR", "NOP", "ORA", "PHA", "PHP", "PLA", "PLP", "ROL",
       "ROR", "RTI", "RTS", "SBC", "SEC", "SED", "SEI", "STA",
       "STX", "STY", "TAX", "TAY", "TSX", "TXA", "TXS", "TYA" >>

\* cls.INSTRUCTIONS of the class with mnemonic c
ClassTable(c) ==
    CASE c = "ADC" -> ADC_INSTRUCTIONS
      [] c = "AND" -> AND_INSTRUCTIONS
      [] c = "ASL" -> ASL_INSTRUCTIONS
      [] c = "BCC" -> BCC_INSTRUCTIONS
      [] c = "BCS" -> BCS_INSTRUCTIONS
      [] c = "BEQ" -> BEQ_INSTRUCTIONS
      [] c = "BIT" -> BIT_INSTRUCTIONS
      [] c = "BMI" -> BMI_INSTRUCTIONS
      [] c = "BNE" -> BNE_INSTRUCTIONS
      [] c = "BPL" -> BPL_INSTRUCTIONS
      [] c = "BRK" -> BRK_INSTRUCTIONS
      [] c = "BVC" -> BVC_INSTRUCTIONS
      [] c = "BVS" -> BVS_INSTRUCTIONS
      [] c = "CLC" -> CLC_INSTRUCTIONS
      [] c = "CLD" -> CLD_INSTRUCTIONS
      [] c = "CLI" -> CLI_INSTRUCTIONS
      [] c = "CLV" -> CLV_INSTRUCTIONS
      [] c = "CMP" -> CMP_INSTRUCTIONS
      [] c = "CPX" -> CPX_INSTRUCTIONS
      [] c = "CPY" -> CPY_INSTRUCTIONS
      [] c = "DEC" -> DEC_INSTRUCTIONS
      [] c = "DEX" -> DEX_INSTRUCTIONS
      [] c = "DEY" -> DEY_INSTRUCTIONS
      [] c = "EOR" -> EOR_INSTRUCTIONS
      [] c = "INC" -> INC_INSTRUCTIONS
      [] c = "INX" -> INX_INSTRUCTIONS
      [] c = "INY" -> INY_INSTRUCTIONS
      [] c = "JMP" -> JMP_INSTRUCTIONS
      [] c = "JSR" -> JSR_INSTRUCTIONS
      [] c = "LDA" -> LDA_INSTRUCTIONS
      [] c = "LDX" -> LDX_INSTRUCTIONS
      [] c = "LDY" -> LDY_INSTRUCTIONS
      [] c = "LSR" -> LSR_INSTRUCTIONS
      [] c = "NOP" -> NOP_INSTRUCTIONS
      [] c = "ORA" -> ORA_INSTRUCTIONS
      [] c = "PHA" -> PHA_INSTRUCTIONS
      [] c = "PHP" -> PHP_INSTRUCTIONS
      [] c = "PLA" -> PLA_INSTRUCTIONS
      [] c = "PLP" -> PLP_INSTRUCTIONS
      [] c = "ROL" -> ROL_INSTRUCTIONS
      [] c = "ROR" -> ROR_INSTRUCTIONS
      [] c = "RTI" -> RTI_INSTRUCTIONS
      [] c = "RTS" -> RTS_INSTRUCTIONS
      [] c = "SBC" -> SBC_INSTRUCTIONS
      [] c = "SEC" -> SEC_INSTRUCTIONS
      [] c = "SED" -> SED_INSTRUCTIONS
      [] c = "SEI" -> SEI_INSTRUCTIONS
      [] c = "STA" -> STA_INSTRUCTIONS
      [] c = "STX" -> STX_INSTRUCTIONS
      [] c = "STY" -> STY_INSTRUCTIONS
      [] c = "TAX" -> TAX_INSTRUCTIONS
      [] c = "TAY" -> TAY_INSTRUCTIONS
      [] c = "TSX" -> TSX_INSTRUCTIONS
      [] c = "TXA" -> TXA_INSTRUCTIONS
      [] c = "TXS" -> TXS_INSTRUCTIONS
      [] c = "TYA" -> TYA_INSTRUCTIONS

\* The module's INSTRUCTIONS dict, opcode |-> class: the loop over clazz
\* stores every key of every class, a later class overwriting an earlier one.
INSTRUCTIONS ==
    LET keys == UNION {DOMAIN ClassTable(clazz[i]) : i \in DOMAIN clazz}
        last(k) == CHOOSE i \in DOMAIN clazz :
                      /\ k \in DOMAIN ClassTable(clazz[i])
                      /\ \A j \in DOMAIN clazz :
                            k \in DOMAIN ClassTable(clazz[j]) => j <= i
    IN  [k \in keys |-> clazz[last(k)]]

\* Instruction.get_bytez
get_bytez(cls, opcode) == ClassTable(cls)[opcode][2]

\* The exception Instruction.disassm raises while it formats the
\* instruction, or NoError.
disassm_err(cls, opcode, m, bytez) ==
    LET address_mode == ClassTable(cls)[opcode][1]
    IN  IF address_mode \in {"ABSOLUTE", "ABSOLUTE_X_INDEXED", "ABSOLUTE_Y_INDEXED",
                             "INDIRECT", "INDEXED_X_INDIRECT", "INDIRECT_Y_INDEXED",
                             "RELATIVE"}
        THEN calculate_operand(address_mode, bytez, m).err
        ELSE IF address_mode = "IMMEDIATE" /\ Len(bytez) = 0 THEN "IndexError"
        ELSE NoError

\* Instruction.disassm that also moves PC past the instruction it formats.
disassm_AdvancesPC(cls, opcode, m, bytez) ==
    IF disassm_err(cls, opcode, m, bytez) # NoError
    THEN Raise(m, disassm_err(cls, opcode, m, bytez))
    ELSE [m EXCEPT !.pc = value_set(m.pc + get_bytez(cls, opcode), MASK16)]

\* Instruction.disassm on the machine m: the machine it leaves, with the
\* exception it raised. It reads the table and resolves the operand; it
\* assigns to no register and to no memory cell, and its text is only
\* printed.
disassm(cls, opcode, m, bytez) ==
    IF disassm_err(cls, opcode, m, bytez) # NoError
    THEN Raise(m, disassm_err(cls, opcode, m, bytez))
    ELSE m

\* cls.execute(opcode, bytez, mcu, memory)
execute(cls, opcode, bytez, m) ==
    CASE cls = "ADC" -> ADC_execute(opcode, bytez, m)
      [] cls = "AND" -> AND_execute(opcode, bytez, m)
      [] cls = "ASL" -> ASL_execute(opcode, bytez, m)
      [] cls = "BCC" -> BCC_execute(opcode, bytez, m)
      [] cls = "BCS" -> BCS_execute(opcode, bytez, m)
      [] cls = "BEQ" -> BEQ_execute(opcode, bytez, m)
      [] cls = "BIT" -> BIT_execute(opcode, bytez, m)
      [] cls = "BMI" -> BMI_execute(opcode, bytez, m)
      [] cls = "BNE" -> BNE_execute(opcode, bytez, m)
      [] cls = "BPL" -> BPL_execute(opcode, bytez, m)
      [] cls = "BRK" -> BRK_execute(opcode, bytez, m)
      [] cls = "BVC" -> BVC_execute(opcode, bytez, m)
      [] cls = "BVS" -> BVS_execute(opcode, bytez, m)
      [] cls = "CLC" -> CLC_execute(opcode, bytez, m)
      [] cls = "CLD" -> CLD_execute(opcode, bytez, m)
      [] cls = "CLI" -> CLI_execute(opcode, bytez, m)
      [] cls = "CLV" -> CLV_execute(opcode, bytez, m)
      [] cls = "CMP" -> CMP_execute(opcode, bytez, m)
      [] cls = "CPX" -> CPX_execute(opcode, bytez, m)
      [] cls = "CPY" -> CPY_execute(opcode, bytez, m)
      [] cls = "DEC" -> DEC_execute(opcode, bytez, m)
      [] cls = "DEX" -> DEX_execute(opcode, bytez, m)
      [] cls = "DEY" -> DEY_execute(opcode, bytez, m)
      [] cls = "EOR" -> EOR_execute(opcode, bytez, m)
      [] cls = "INC" -> INC_execute(opcode, bytez, m)
      [] cls = "INX" -> INX_execute(opcode, bytez, m)
      [] cls = "INY" -> INY_execute(opcode, bytez, m)
      [] cls = "JMP" -> JMP_execute(opcode, bytez, m)
      [] cls = "JSR" -> JSR_execute(opcode, bytez, m)
      [] cls = "LDA" -> LDA_execute(opcode, bytez, m)
      [] cls = "LDX" -> LDX_execute(opcode, bytez, m)
      [] cls = "LDY" -> LDY_execute(opcode, bytez, m)
      [] cls = "LSR" -> LSR_execute(opcode, bytez, m)
      [] cls = "NOP" -> NOP_execute(opcode, bytez, m)
      [] cls = "ORA" -> ORA_execute(opcode, bytez, m)
      [] cls = "PHA" -> PHA_execute(opcode, bytez, m)
      [] cls = "PHP" -> PHP_execute(opcode, bytez, m)
      [] cls = "PLA" -> PLA_execute(opcode, bytez, m)
      [] cls = "PLP" -> PLP_execute(opcode, bytez, m)
      [] cls = "ROL" -> ROL_execute(opcode, bytez, m)
      [] cls = "ROR" -> ROR_execute(opcode, bytez, m)
      [] cls = "RTI" -> RTI_execute(opcode, bytez, m)
      [] cls = "RTS" -> RTS_execute(opcode, bytez, m)
      [] cls = "SBC" -> SBC_execute(opcode, bytez, m)
      [] cls = "SEC" -> SEC_execute(opcode, bytez, m)
      [] cls = "SED" -> SED_execute(opcode, bytez, m)
      [] cls = "SEI" -> SEI_execute(opcode, bytez, m)
      [] cls = "STA" -> STA_execute(opcode, bytez, m)
      [] cls = "STX" -> STX_execute(opcode, bytez, m)
      [] cls = "STY" -> STY_execute(opcode, bytez, m)
      [] cls = "TAX" -> TAX_execute(opcode, bytez, m)
      [] cls = "TAY" -> TAY_execute(opcode, bytez, m)
      [] cls = "TSX" -> TSX_execute(opcode, bytez, m)
      [] cls = "TXA" -> TXA_execute(opcode, bytez, m)
      [] cls = "TXS" -> TXS_execute(opcode, bytez, m)
      [] cls = "TYA" -> TYA_execute(opcode, bytez, m)

(***************************************************************************)
(* mos6502/emulator                                                        *)
(***************************************************************************)
\* The machine held in the variables.
Machine ==
    [a |-> a, x |-> x, y |-> y, sp |-> sp, pc |-> pc, sr |-> sr, mem |-> mem,
     err |-> NoError]

\* What step prints before it executes the instruction: the address it
\* fetched from and the instruction's bytes, and the registers of the
\* machine m as they are once the instruction is disassembled.
Trace(address, m, opcode, data) ==
    [pc |-> address, op |-> opcode, data |-> data, a |-> m.a, x |-> m.x, y |-> m.y,
     sp |-> m.sp, sr |-> m.sr]

\* Emulator.step that runs the instruction's semantics first and advances
\* PC afterwards.
step_ExecuteFirst(m) ==
    LET m0 == [m EXCEPT !.sr = set_bit_value(m.sr, BitB, 1)]
        opcode == read_byte(m0.mem, m0.pc)
        opcode_class == INSTRUCTIONS[opcode]
        bytez == get_bytez(opcode_class, opcode)
        data == Slice(m0.mem, m0.pc + 1, m0.pc + bytez)
        md == disassm(opcode_class, opcode, m0, data)
        m1 == execute(opcode_class, opcode, data, md)
    IN  IF access_err(m0.pc) # NoError
        THEN [m |-> Raise(m0, access_err(m0.pc)), printed |-> <<>>]
        ELSE IF opcode \notin DOMAIN INSTRUCTIONS
        THEN [m |-> Raise(m0, "KeyError"), printed |-> <<>>]
        ELSE IF md.err # NoError
        THEN [m |-> md, printed |-> <<>>]
        ELSE [m |-> IF m1.err # NoError THEN m1
                    ELSE [m1 EXCEPT !.pc = value_set(m1.pc + bytez, MASK16)],
              printed |-> <<Trace(m0.pc, md, opcode, data)>>]

\* Emulator.step on the machine m: the machine it leaves, with the exception
\* it raised, and the trace it printed (<<>> if it raised before printing).
step(m) ==
    LET m0 == [m EXCEPT !.sr = set_bit_value(m.sr, BitB, 1)]
        opcode == read_byte(m0.mem, m0.pc)
        opcode_class == INSTRUCTIONS[opcode]
        bytez == get_bytez(opcode_class, opcode)
        data == Slice(m0.mem, m0.pc + 1, m0.pc + bytez)
        md == disassm(opcode_class, opcode, m0, data)
        m1 == [md EXCEPT !.pc = value_set(md.pc + bytez, MASK16)]
    IN  IF access_err(m0.pc) # NoError
        THEN [m |-> Raise(m0, access_err(m0.pc)), printed |-> <<>>]
        ELSE IF opcode \notin DOMAIN INSTRUCTIONS
        THEN [m |-> Raise(m0, "KeyError"), printed |-> <<>>]
        ELSE IF md.err # NoError
        THEN [m |-> md, printed |-> <<>>]
        ELSE [m |-> execute(opcode_class, opcode, data, m1),
              printed |-> <<Trace(m0.pc, md, opcode, data)>>]

\* dbg_cli's do_step catches a KeyError and goes on; any other exception
\* ends the session.
Alive == err \in {NoError, "KeyError"}

Step ==
    /\ Alive
    /\ Len(out) < MaxSteps
    /\ \E r \in {step(Machine)} :
           /\ a' = r.m.a
           /\ x' = r.m.x
           /\ y' = r.m.y
           /\ sp' = r.m.sp
           /\ pc' = r.m.pc
           /\ sr' = r.m.sr
           /\ mem' = r.m.mem
           /\ err' = r.m.err
           /\ out' = out \o r.printed
    /\ call' = call

Next == Step

(***************************************************************************)
(* Calls a client makes on the status register itself.                     *)
(***************************************************************************)
\* The last call a client made on the status register, the memory or the
\* emulator besides step: its name, its arguments and what it returned; n
\* counts the calls made so far.
Call(op, address, value, data, ret) ==
    [n |-> call.n + 1, op |-> op, address |-> address, value |-> value,
     data |-> data, ret |-> ret]

NoCall ==
    [n |-> 0, op |-> "", address |-> None, value |-> None, data |-> <<>>,
     ret |-> None]

\* sr.value = val: the overridden setter ors bit 5 in and value_set asserts
\* on a value that is neither positive nor a signed byte.
SR_write(val) ==
    /\ Alive
    /\ call.n < MaxCalls
    /\ LET v == IF PyBit(val, BitUnused) = 1 THEN val ELSE val + Pow2(BitUnused)
       IN  IF value_set_ok(v)
           THEN sr' = SR_value_set(val) /\ err' = NoError
           ELSE sr' = sr /\ err' = "AssertionError"
    /\ call' = Call("SR.value", None, val, <<>>, None)
    /\ UNCHANGED <<a, x, y, sp, pc, mem, out>>

\* sr.<flag> = val for one of the seven named flags: _set_bit_value asserts
\* val in [0, 1].
SR_flag_write(bit, val) ==
    /\ Alive
    /\ call.n < MaxCalls
    /\ IF val \in {0, 1}
       THEN sr' = set_bit_value(sr, bit, val) /\ err' = NoError
       ELSE sr' = sr /\ err' = "AssertionError"
    /\ call' = Call("SR.flag", bit, val, <<>>, None)
    /\ UNCHANGED <<a, x, y, sp, pc, mem, out>>

(***************************************************************************)
(* Emulator.run: while memory.read_byte(pc) != 0x00: step(), then print     *)
(* 'BRK at <pc>'.  call.op = "run" from the call on; call.ret is None      *)
(* while the loop runs and the printed address once run has returned; an   *)
(* exception of the loop test or of step leaves run with err set.          *)
(***************************************************************************)
Running == call.op = "run" /\ call.ret = None /\ err = NoError

\* run() is called.
Run ==
    /\ Alive
    /\ call.n < MaxCalls
    /\ ~Running
    /\ call' = Call("run", None, None, <<>>, None)
    /\ err' = NoError
    /\ UNCHANGED <<a, x, y, sp, pc, sr, mem, out>>

\* The loop test reads a byte other than 0x00 and the body steps.
RunStep ==
    /\ Running
    /\ access_err(pc) = NoError
    /\ read_byte(mem, pc) # \h00
    /\ Step

\* The loop test's read_byte raises.
RunRaise ==
    /\ Running
    /\ access_err(pc) # NoError
    /\ err' = access_err(pc)
    /\ UNCHANGED <<a, x, y, sp, pc, sr, mem, out, call>>

\* The loop test reads 0x00: run prints 'BRK at <pc>' and returns.
RunReturn ==
    /\ Running
    /\ access_err(pc) = NoError
    /\ read_byte(mem, pc) = \h00
    /\ call' = [call EXCEPT !.ret = pc]
    /\ UNCHANGED <<a, x, y, sp, pc, sr, mem, err, out>>

NextRun == Run \/ RunStep \/ RunRaise \/ RunReturn

(***************************************************************************)
(* Construction and program loading                                        *)
(***************************************************************************)
\* Memory.__init__: every cell 0x00.
Memory_init == [i \in {} |-> 0]

\* The assertion of load with <= in place of <.
load_ok_Inclusive(address, data) == address + Len(data) <= SIZE

\* Memory.load succeeds exactly when its assertion holds.
load_ok(address, data) == address + Len(data) < SIZE

RECURSIVE load_Shifted(_, _, _)
\* load that stores data[i] one cell too high.
load_Shifted(mm, address, data) ==
    IF data = <<>> THEN mm
    ELSE load_Shifted(Store(mm, Index(address + 1), Head(data)), address + 1,
                      Tail(data))

RECURSIVE load(_, _, _)
\* Memory.load: data[i] stored, unmasked, at address + i.
load(mm, address, data) ==
    IF data = <<>> THEN mm
    ELSE load(Store(mm, Index(address), Head(data)), address + 1, Tail(data))

RECURSIVE loads(_, _)
\* A sequence ls of loads << <<address, data>>, ... >> applied in order.
loads(mm, ls) ==
    IF ls = <<>> THEN mm
    ELSE loads(load(mm, Head(ls)[1], Head(ls)[2]), Tail(ls))

\* The exception of load, or NoError: the assertion, then the first list
\* access.
load_err(address, data) ==
    IF ~load_ok(address, data) THEN "AssertionError"
    ELSE IF data # <<>> THEN index_err(address)
    ELSE NoError

(***************************************************************************)
(* Calls a client makes on the memory itself.  An exception leaves the     *)
(* memory object usable, so calls go on after it.                          *)
(***************************************************************************)
Mem_read_byte(address) ==
    /\ call.n < MaxCalls
    /\ err' = access_err(address)
    /\ call' = Call("read_byte", address, None, <<>>,
                    IF access_err(address) = NoError
                    THEN read_byte(mem, address) ELSE None)
    /\ UNCHANGED <<a, x, y, sp, pc, sr, mem, out>>

Mem_write_byte(address, value) ==
    /\ call.n < MaxCalls
    /\ err' = access_err(address)
    /\ mem' = IF access_err(address) = NoError
              THEN write_byte(mem, address, value) ELSE mem
    /\ call' = Call("write_byte", address, value, <<>>, None)
    /\ UNCHANGED <<a, x, y, sp, pc, sr, out>>

Mem_read_word(address) ==
    /\ call.n < MaxCalls
    /\ err' = read_word_err(address)
    /\ call' = Call("read_word", address, None, <<>>,
                    IF read_word_err(address) = NoError
                    THEN read_word(mem, address) ELSE None)
    /\ UNCHANGED <<a, x, y, sp, pc, sr, mem, out>>

Mem_write_word(address, value) ==
    /\ call.n < MaxCalls
    /\ \E r \in {write_word(mem, address, value)} :
          /\ mem' = r.mem
          /\ err' = r.err
    /\ call' = Call("write_word", address, value, <<>>, None)
    /\ UNCHANGED <<a, x, y, sp, pc, sr, out>>

Mem_load(address, data) ==
    /\ call.n < MaxCalls
    /\ err' = load_err(address, data)
    /\ mem' = IF load_err(address, data) = NoError
              THEN load(mem, address, data) ELSE mem
    /\ call' = Call("load", address, None, data, None)
    /\ UNCHANGED <<a, x, y, sp, pc, sr, out>>

\* The construction without the write of 0xff to SP.
Constructed_StackPointerZero ==
    [a |-> 0, x |-> 0, y |-> 0, sp |-> 0, pc |-> 0,
     sr |-> SR_init, mem |-> Memory_init]

\* MCU.__init__ and Emulator.__init__: the state after construction.
Constructed ==
    [a |-> 0, x |-> 0, y |-> 0, sp |-> value_set(\hFF, MASK16), pc |-> 0,
     sr |-> SR_init, mem |-> Memory_init]

\* The variables hold the machine s and nothing was stepped or called yet.
Holds(s) ==
    /\ a = s.a
    /\ x = s.x
    /\ y = s.y
    /\ sp = s.sp
    /\ pc = s.pc
    /\ sr = s.sr
    /\ mem = s.mem
    /\ err = NoError
    /\ out = <<>>
    /\ call = NoCall

(***************************************************************************)
(* Initial states.  Every family starts from the constructed emulator,     *)
(* loads a program and data with Memory.load and writes registers and      *)
(* flags through their setters, as the tests and the debugger do.          *)
(***************************************************************************)
\* Byte values at the edges of the unsigned and the signed range, and the
\* operands of the documented scenarios.
Bytes == {\h00, \h01, \h0A, \h10, \h42, \h7F, \h80, \h81, \hFE, \hFF}

\* Packed status bytes: carry clear and set, with N, V and Z all clear and
\* all set.
Statuses == {\h20, \h21, \hE2, \hE3}

\* The index registers: without and with a wrap of the zero page index.
Indexes == {<<\h01, \h00>>, <<\h10, \h01>>}

\* The operand bytes that follow an opcode of the given mode; v is the
\* immediate operand.
OperandBytes(mode, v) ==
    CASE mode \in {"ACCUMULATOR", "IMPLIED"} -> <<>>
      [] mode = "IMMEDIATE" -> <<v>>
      [] mode \in {"ZEROPAGE", "ZEROPAGE_X_INDEXED", "ZEROPAGE_Y_INDEXED"} -> <<\hF5>>
      [] mode \in {"ABSOLUTE", "ABSOLUTE_X_INDEXED", "ABSOLUTE_Y_INDEXED"} ->
            <<\hF5, \h02>>
      [] mode = "INDEXED_X_INDIRECT" -> <<\h10>>
      [] mode = "INDIRECT_Y_INDEXED" -> <<\h20>>
      [] mode = "INDIRECT" -> <<\h20, \h00>>
      [] mode = "RELATIVE" -> <<v>>

\* The data the operand bytes above lead to: a pointer to 0x1234 at 0x20,
\* v in the cells the zero page and absolute operands address, and v in the
\* stack cells a pull reads at SP = 0xFF and SP = 0x00.
DataImage(v) ==
    << <<\h20, <<\h34, \h12>> >>, <<\h05, <<v>> >>, <<\hF5, <<v, v>> >>,
       <<\h02F5, <<v, v>> >>, <<\h0305, <<v>> >>, <<\h1234, <<v, v>> >>,
       <<\h0100, <<v, v>> >> >>

\* The machine with the one instruction op at address p, its operand v, the
\* data image of v and the given registers.
OneInstruction(op, p, v, av, xv, yv, spv, srv) ==
    LET mode == ClassTable(INSTRUCTIONS[op])[op][1]
    IN  [a |-> value_set(av, MASK8), x |-> value_set(xv, MASK8),
         y |-> value_set(yv, MASK8), sp |-> value_set(spv, MASK16),
         pc |-> value_set(p, MASK16), sr |-> SR_value_set(srv),
         mem |-> loads(Memory_init,
                       DataImage(v) \o << <<p, <<op>> \o OperandBytes(mode, v)>> >>)]

OpcodesOf(classes) == {op \in DOMAIN INSTRUCTIONS : INSTRUCTIONS[op] \in classes}

\* Arithmetic and compare instructions, in every addressing mode.
InitALU ==
    \/ \E op \in OpcodesOf({"ADC", "SBC", "CMP"}), av \in Bytes, v \in Bytes,
          xy \in Indexes, srv \in Statuses :
          Holds(OneInstruction(op, 0, v, av, xy[1], xy[2], \hFF, srv))
    \/ \E op \in OpcodesOf({"CPX", "CPY"}), rv \in Bytes, v \in Bytes,
          srv \in Statuses :
          Holds(OneInstruction(op, 0, v, \h42, rv, rv, \hFF, srv))

SpecALU == InitALU /\ [][Next]_vars

\* Index register values: zero, one, the sign change, and the wrap.
IndexValues == {\h00, \h01, \h7F, \h80, \hFF}

\* Stack pointers: the two wrap points and the middle of the page.
StackPointers == {\h00, \h80, \hFF}

\* The shift and rotate opcodes in ACCUMULATOR mode.
AccumulatorShifts == {\h0A, \h4A, \h2A, \h6A}

\* Instructions that write a result into A, X or Y.
InitReg ==
    \/ \E op \in OpcodesOf({"AND", "ORA", "EOR", "LDA", "LDX", "LDY"}),
          av \in Bytes, v \in Bytes, srv \in {\h20, \hE3} :
          Holds(OneInstruction(op, 0, v, av, \h10, \h01, \hFF, srv))
    \/ \E op \in OpcodesOf({"PLA", "TAX", "TAY", "TSX", "TXA", "TYA",
                            "INX", "INY", "DEX", "DEY"}) \cup AccumulatorShifts,
          av \in Bytes, rv \in IndexValues, spv \in StackPointers,
          srv \in Statuses :
          Holds(OneInstruction(op, 0, av, av, rv, rv, spv, srv))
    \/ \E op \in {\h69, \hE9}, av \in Bytes, v \in Bytes, srv \in Statuses :
          Holds(OneInstruction(op, 0, v, av, 0, 0, \hFF, srv))

SpecReg == InitReg /\ [][Next]_vars

\* The machine after construction with the images loaded, started at p with
\* the given accumulator, stack pointer and status.
Loaded(images, p, av, spv, srv) ==
    [Constructed EXCEPT !.a = value_set(av, MASK8),
                        !.sp = value_set(spv, MASK16),
                        !.pc = value_set(p, MASK16),
                        !.sr = SR_value_set(srv),
                        !.mem = loads(Memory_init, images)]

Branches == {"BCC", "BCS", "BEQ", "BNE", "BMI", "BPL", "BVC", "BVS"}

\* Every combination of N, V, Z and C.
Flags == {\h20 + 128 * n + 64 * v + 2 * z + c : n \in {0, 1}, v \in {0, 1},
                                                 z \in {0, 1}, c \in {0, 1}}

\* Branch offsets: forward, backward, and the extremes of the signed range.
BranchOffsets == {\h00, \h05, \h7F, \h80, \hFD, \hFE, \hFF}

\* Branch addresses: the start of memory, the example's page, and close to
\* the end of memory.
BranchAddresses == {\h0000, \h0100, \h1880}

\* One branch instruction with its offset byte.
InitBranch ==
    \E op \in OpcodesOf(Branches), p \in BranchAddresses, b \in BranchOffsets,
       srv \in Flags :
       Holds(Loaded(<< <<p, <<op, b>> >> >>, p, 0, \hFF, srv))

SpecBranch == InitBranch /\ [][Next]_vars

\* Stack pointers of a call or a push: the wrap points, their neighbours,
\* the middle of the page, and 0x100, which RTI leaves behind when it
\* returns with SP = 0xFE (it increments SP without masking).
CallStackPointers == {\h00, \h01, \h80, \hFE, \hFF, \h100}

\* Where a JSR is placed: the example's address, the start of memory, and
\* inside the stack page.
CallAddresses == {\h0600, \h0000, \h0180}

\* Where it calls: the example's target, the top of the stack page, the
\* start of memory, and beyond the end of memory.
CallTargets == {\h0609, \h01FF, \h0000, \h2000}

\* Where PHA, PLA are placed: the start of memory and the stack page.
PushAddresses == {\h0000, \h0100}

\* An RTS at the target t and, loaded after it, a JSR t at p.
CallReturn(p, t) ==
    (IF t < SIZE THEN << <<t, <<\h60>> >> >> ELSE <<>>)
      \o << <<p, <<\h20, t % 256, t \div 256>> >> >>

InitStack ==
    \/ \E p \in CallAddresses, t \in CallTargets, spv \in CallStackPointers :
          Holds(Loaded(CallReturn(p, t), p, 0, spv, \h20))
    \/ \E p \in PushAddresses, v \in Bytes \cup {\h68},
          spv \in CallStackPointers, srv \in {\h20, \hE3} :
          Holds(Loaded(<< <<p, <<\h48, \h68>> >> >>, p, v, spv, srv))

SpecStack == InitStack /\ [][Next]_vars

\* Packed values a client writes to SR: all flags clear, all but bit 5 set,
\* the same with a ninth bit, and negative values inside and outside a
\* signed byte.
PackedValues == {\h00, \hDF, \h1DF, -1, -200}

\* The named flags N, V, B, D, I, Z, C.
NamedFlags == {BitN, BitV, BitB, BitD, BitI, BitZ, BitC}

\* Instructions that write SR as a whole or flag by flag: PLP, RTI, PHP,
\* BRK, CLC, SEC, CLD, SED, CLI, SEI, CLV, BIT and ADC.
StatusOpcodes == {\h28, \h40, \h08, \h00, \h18, \h38, \hD8, \hF8, \h58,
                  \h78, \hB8, \h24, \h69}

\* Bytes PLP and RTI pull: no bit set, every bit but bit 5, every bit.
PulledValues == {\h00, \hDF, \hFF}

\* One instruction that writes SR on the constructed emulator; v is in the
\* cells PLP (0x0100) and RTI (0x00FF) load SR from.
InitStatus ==
    \E op \in StatusOpcodes, v \in PulledValues :
       Holds(Loaded(<< <<\hFF, <<v, v>> >>, <<0, <<op, \hFF>> >> >>,
                    0, 0, \hFF, SR_init))

NextStatus ==
    \/ Step
    \/ \E val \in PackedValues : SR_write(val)
    \/ \E bit \in NamedFlags, val \in {0, 1, 2} : SR_flag_write(bit, val)

SpecStatus == InitStatus /\ [][NextStatus]_vars

\* The freshly constructed emulator with one instruction, any of the table,
\* loaded at 0x0000 together with the data its operand leads to.
InitFresh ==
    \E op \in DOMAIN INSTRUCTIONS, v \in Bytes :
       Holds(OneInstruction(op, 0, v, 0, 0, 0, \hFF, SR_init))

SpecFresh == InitFresh /\ [][Next]_vars

\* Where an instruction is stepped: the start of memory, the middle, and
\* close to the end of memory.
StepAddresses == {\h0000, \h0600, \h1880}

\* Operand bytes: zero, small, the extremes of the signed range, and 0xFF.
StepOperands == {\h00, \h05, \h7F, \h80, \hFF}

\* One instruction, any of the table, at one of the addresses.
InitStep ==
    \E op \in DOMAIN INSTRUCTIONS, p \in StepAddresses, v \in StepOperands,
       srv \in {\h20, \hE3} :
       Holds(OneInstruction(op, p, v, \h42, \h01, \h10, \hFF, srv))

SpecStep == InitStep /\ [][Next]_vars

\* Programs to run: nothing (no load at all), BRK alone, instructions ending in BRK, a loop,
\* an illegal opcode at once and after an instruction, and an RTS that
\* returns to the address pulled from an empty stack.
Programs(v) ==
    {<<>>, <<\h00>>, <<\hEA, \h00>>, <<\hA9, v, \h00>>, <<\h18, \h38, \h00>>,
     <<\h4C, \h00, \h06>>, <<\h02>>, <<\hEA, \h02>>, <<\h60>>, <<\h90, v>>}

\* Where run starts (the debugger sets PC): the start of memory, the
\* middle, close to the end, and the first address beyond it.
RunAddresses == {\h0000, \h0600, \h18F0, SIZE}

InitRun ==
    \E p \in RunAddresses, v \in StepOperands, srv \in {\h20, \h30, \hE3} :
       \E prog \in Programs(v) :
          IF prog = <<>>
          THEN Holds(Loaded(<<>>, p, 0, \hFF, srv))
          ELSE /\ load_ok(p, prog)
               /\ Holds(Loaded(<< <<p, prog>> >>, p, 0, \hFF, srv))

SpecRun == InitRun /\ [][NextRun]_vars

\* Addresses of memory calls: below zero, the first cells, the last cells,
\* the first address beyond the memory, and the ends of a 64 KB space.
MemAddresses == {-1, 0, 1, SIZE - 2, SIZE - 1, SIZE, \hFFFF, \h10000}

\* Values written: bytes, values wider than a byte or a word, and below 0.
MemValues == {\h00, \hFA, \hFF, \h100, \h1234, \hFFFF, \h12345, -1}

\* Data loaded: nothing, one byte, the four bytes of the tests, and a value
\* wider than a byte.
LoadData == {<<>>, <<\hFA>>, <<\hDE, \hAD, \hBE, \hEF>>, <<\h1FF, \h00>>}

\* Where it is loaded: the start of memory, so that it ends one cell
\* before, on and beyond the last cell, and below zero.
LoadAddresses(data) ==
    {0, SIZE - Len(data) - 1, SIZE - Len(data), SIZE - Len(data) + 1, SIZE, -2}

\* The constructed memory.
InitMemory == Holds(Constructed)

NextMemory ==
    \/ \E address \in MemAddresses : Mem_read_byte(address)
    \/ \E address \in MemAddresses, value \in MemValues :
          Mem_write_byte(address, value)
    \/ \E address \in MemAddresses : Mem_read_word(address)
    \/ \E address \in MemAddresses, value \in MemValues :
          Mem_write_word(address, value)
    \/ \E data \in LoadData : \E address \in LoadAddresses(data) :
          Mem_load(address, data)

SpecMemory == InitMemory /\ [][NextMemory]_vars

(***************************************************************************)
(* The step a property speaks of.  A step that prints a trace fetched and  *)
(* decoded its instruction; the unprimed variables are the state before it *)
(* and the primed ones the state after it.                                 *)
(***************************************************************************)
\* The trace the step just printed.
Printed == out'[Len(out')]

\* The step executed an instruction of one of the classes to its end.
Executes(classes) ==
    /\ Len(out') = Len(out) + 1
    /\ err' = NoError
    /\ INSTRUCTIONS[Printed.op] \in classes

\* The addressing mode and the length of the instruction being stepped.
StepMode == ClassTable(INSTRUCTIONS[Printed.op])[Printed.op][1]
StepLength == ClassTable(INSTRUCTIONS[Printed.op])[Printed.op][2]

\* The operand M the addressing mode resolves for the instruction.
StepOperand ==
    calculate_operand(StepMode, Printed.data,
                      [Machine EXCEPT !.pc = pc + StepLength]).operand

\* Bit 7 of a byte.
Bit7(b) == b \div 128

(***************************************************************************)
(* C1: executing ADC sets the carry flag to 1 exactly when the unsigned    *)
(* sum A + M + C is greater than 255, and to 0 otherwise.                  *)
(***************************************************************************)
C1_AdcCarryOut ==
    [][Executes({"ADC"}) =>
         get_bit_value(sr', BitC)
           = B2I(a + StepOperand + get_bit_value(sr, BitC) > 255)]_vars

C3_AdcOverflow ==
    [][Executes({"ADC"}) =>
         LET M == StepOperand
             result == (a + M + get_bit_value(sr, BitC)) % 256
             masked == PyAnd(PyAnd(255 - PyXor(a, M), PyXor(a, result)), \h80)
         IN  /\ get_bit_value(sr', BitV) = B2I(masked # 0)
             /\ (masked # 0) <=> (Bit7(a) = Bit7(M) /\ Bit7(result) # Bit7(a))
             /\ (a = \h7F /\ M = \h01 /\ get_bit_value(sr, BitC) = 0) =>
                   /\ a' = \h80
                   /\ get_bit_value(sr', BitN) = 1
                   /\ get_bit_value(sr', BitZ) = 0
                   /\ get_bit_value(sr', BitC) = 0
                   /\ get_bit_value(sr', BitV) = 1]_vars

\* ADC #$01 was stepped with A = 0x7F and C = 0 and overflowed.
C3_Witness ==
    /\ Len(out) = 1
    /\ err = NoError
    /\ out[1].op = \h69
    /\ out[1].data = <<\h01>>
    /\ out[1].a = \h7F
    /\ get_bit_value(out[1].sr, BitC) = 0
    /\ a = \h80
    /\ get_bit_value(sr, BitV) = 1
    /\ get_bit_value(sr, BitN) = 1

(***************************************************************************)
(* C4: SBC with operand M leaves A and the flags N, Z, C and V exactly as  *)
(* the ADC rules give for the operand ~M & 0xFF.                           *)
(***************************************************************************)
C4_SbcAsAdcOfComplement ==
    [][Executes({"SBC"}) =>
         LET Mc == 255 - StepOperand
             sum == a + Mc + get_bit_value(sr, BitC)
             result == sum % 256
             masked == PyAnd(PyAnd(255 - PyXor(a, Mc), PyXor(a, result)), \h80)
         IN  /\ a' = result
             /\ get_bit_value(sr', BitC) = B2I(sum > 255)
             /\ get_bit_value(sr', BitV) = B2I(masked # 0)
             /\ get_bit_value(sr', BitZ) = B2I(result = 0)
             /\ get_bit_value(sr', BitN) = Bit7(result)]_vars

(***************************************************************************)
(* C5: after any instruction that writes a result into A, X or Y, Z is 1   *)
(* exactly when the byte now held in that register is 0 and N equals bit 7 *)
(* of the byte now held in that register.                                  *)
(***************************************************************************)
WritesA == {"ADC", "SBC", "AND", "ORA", "EOR", "LDA", "PLA", "TXA", "TYA"}
WritesX == {"LDX", "TAX", "TSX", "INX", "DEX"}
WritesY == {"LDY", "TAY", "INY", "DEY"}
Shifts == {"ASL", "LSR", "ROL", "ROR"}

C5_RegisterResultFlags ==
    [][/\ (Executes(WritesA) \/ (Executes(Shifts) /\ StepMode = "ACCUMULATOR")) =>
             /\ get_bit_value(sr', BitZ) = B2I(a' = 0)
             /\ get_bit_value(sr', BitN) = Bit7(a')
       /\ Executes(WritesX) =>
             /\ get_bit_value(sr', BitZ) = B2I(x' = 0)
             /\ get_bit_value(sr', BitN) = Bit7(x')
       /\ Executes(WritesY) =>
             /\ get_bit_value(sr', BitZ) = B2I(y' = 0)
             /\ get_bit_value(sr', BitN) = Bit7(y')]_vars

(***************************************************************************)
(* C6: CMP, CPX and CPY with register value R (A, X, Y) and operand M set  *)
(* C = 1 iff R >= M, Z = 1 iff R = M and N to bit 7 of (R - M) mod 256,    *)
(* and leave A, X, Y, SP and memory unchanged.  A = 0x42, CMP #$42 gives   *)
(* A = 0x42, Z = 1, C = 1, N = 0.                                          *)
(***************************************************************************)
C6_Compare ==
    [][Executes({"CMP", "CPX", "CPY"}) =>
         LET M == StepOperand
             cls == INSTRUCTIONS[Printed.op]
             R == IF cls = "CMP" THEN a ELSE IF cls = "CPX" THEN x ELSE y
         IN  /\ get_bit_value(sr', BitC) = B2I(R >= M)
             /\ get_bit_value(sr', BitZ) = B2I(R = M)
             /\ get_bit_value(sr', BitN) = Bit7((R - M) % 256)
             /\ a' = a /\ x' = x /\ y' = y /\ sp' = sp /\ mem' = mem]_vars

\* CMP #$42 was stepped with A = 0x42.
C6_Witness ==
    /\ Len(out) = 1
    /\ err = NoError
    /\ out[1].op = \hC9
    /\ out[1].data = <<\h42>>
    /\ out[1].a = \h42
    /\ a = \h42
    /\ get_bit_value(sr, BitZ) = 1
    /\ get_bit_value(sr, BitC) = 1
    /\ get_bit_value(sr, BitN) = 0

(***************************************************************************)
(* C7: a branch instruction (BCC, BCS, BEQ, BNE, BMI, BPL, BVC, BVS)       *)
(* stepped at address P with offset byte b leaves PC equal to              *)
(* (P + 2 + to_signed(b)) masked to 16 bits if its condition holds (C = 0, *)
(* C = 1, Z = 1, Z = 0, N = 1, N = 0, V = 0, V = 1) and equal to P + 2     *)
(* otherwise; BEQ +5 at 0x0100 with Z = 1 leaves PC = 0x0107.              *)
(***************************************************************************)
BranchCondition(cls, s) ==
    CASE cls = "BCC" -> get_bit_value(s, BitC) = 0
      [] cls = "BCS" -> get_bit_value(s, BitC) = 1
      [] cls = "BEQ" -> get_bit_value(s, BitZ) = 1
      [] cls = "BNE" -> get_bit_value(s, BitZ) = 0
      [] cls = "BMI" -> get_bit_value(s, BitN) = 1
      [] cls = "BPL" -> get_bit_value(s, BitN) = 0
      [] cls = "BVC" -> get_bit_value(s, BitV) = 0
      [] cls = "BVS" -> get_bit_value(s, BitV) = 1

C7_BranchTarget ==
    [][Executes(Branches) =>
         LET b == Printed.data[1]
             target == (pc + 2 + (IF b <= 127 THEN b ELSE b - 256)) % 65536
         IN  pc' = IF BranchCondition(INSTRUCTIONS[Printed.op], sr)
                   THEN target ELSE pc + 2]_vars

(***************************************************************************)
(* C8: for a JSR at address P and a stack pointer S in 0..255, stepping    *)
(* the JSR and then at once an RTS at the JSR target leaves PC = P + 3 and *)
(* SP = S, also when the two pushes wrap SP past 0x00; JSR $0609 at 0x0600 *)
(* with SP = 0xFF followed by RTS at 0x0609 gives PC = 0x0603, SP = 0xFF.  *)
(***************************************************************************)
\* The trace of the instruction stepped before the one being stepped.
Previous == out[Len(out)]

\* The instruction stepped before this one was of class cls.
After(cls) == Len(out) >= 1 /\ INSTRUCTIONS[Previous.op] = cls

C8_JsrRtsRoundTrip ==
    [][(/\ After("JSR")
        /\ Executes({"RTS"})
        /\ Previous.sp \in 0..255
        /\ pc = Previous.data[1] + 256 * Previous.data[2]) =>
         /\ pc' = Previous.pc + 3
         /\ sp' = Previous.sp
         /\ (Previous.pc = \h0600 /\ Previous.sp = \hFF /\ pc = \h0609) =>
               (pc' = \h0603 /\ sp' = \hFF)]_vars

\* JSR $0609 was stepped at 0x0600 with SP = 0x00, its pushes wrapped SP to
\* 0xFE, and the RTS at 0x0609 returned.
C8_Witness ==
    /\ Len(out) = 2
    /\ err = NoError
    /\ out[1].op = \h20
    /\ out[1].pc = \h0600
    /\ out[1].data = <<\h09, \h06>>
    /\ out[1].sp = \h00
    /\ out[2].op = \h60
    /\ out[2].pc = \h0609
    /\ out[2].sp = \hFE
    /\ pc = \h0603
    /\ sp = \h00

(***************************************************************************)
(* C9: stepping a JSR at address P with stack pointer S writes the high    *)
(* byte of P + 2 to 0x0100 + S and the low byte of P + 2 to                *)
(* 0x0100 + ((S - 1) mod 256), leaves SP = (S - 2) mod 256, sets PC to the *)
(* 16-bit target and changes no other memory cell; JSR $0609 at 0x0600     *)
(* with SP = 0xFF leaves mem[0x01FF] = 0x06 and mem[0x01FE] = 0x02.        *)
(***************************************************************************)
C9_JsrFrame ==
    [][Executes({"JSR"}) =>
         LET ret == pc + 2
             hi_at == \h0100 + sp
             lo_at == \h0100 + ((sp - 1) % 256)
         IN  /\ \A c \in 0..(SIZE - 1) :
                   Cell(mem', c) = IF c = lo_at THEN ret % 256
                                   ELSE IF c = hi_at THEN (ret \div 256) % 256
                                   ELSE Cell(mem, c)
             /\ sp' = (sp - 2) % 256
             /\ pc' = Printed.data[1] + 256 * Printed.data[2]
             /\ (pc = \h0600 /\ sp = \hFF) =>
                   (Cell(mem', \h01FF) = \h06 /\ Cell(mem', \h01FE) = \h02)]_vars

\* JSR $0609 was stepped at 0x0600 with SP = 0xFF.
C9_Witness ==
    /\ Len(out) = 1
    /\ err = NoError
    /\ out[1].op = \h20
    /\ out[1].pc = \h0600
    /\ out[1].data = <<\h09, \h06>>
    /\ out[1].sp = \hFF
    /\ Cell(mem, \h01FF) = \h06
    /\ Cell(mem, \h01FE) = \h02
    /\ sp = \hFD
    /\ pc = \h0609

(***************************************************************************)
(* C10: for an accumulator value v and an SP in 0..255, PHA followed by    *)
(* PLA leaves A = v and SP unchanged: PHA stores v at 0x0100 + SP and then *)
(* sets SP to (SP - 1) & 0xFF, and PLA first sets SP to (SP + 1) & 0xFF    *)
(* and then reads 0x0100 + SP; also at the wrap points SP = 0x00 and       *)
(* SP = 0xFF.                                                              *)
(***************************************************************************)
C10_PhaPlaRoundTrip ==
    [][/\ (Executes({"PHA"}) /\ sp \in 0..255) =>
             /\ Cell(mem', \h0100 + sp) = a
             /\ sp' = (sp - 1) % 256
       /\ (Executes({"PLA"}) /\ sp \in 0..255) =>
             /\ sp' = (sp + 1) % 256
             /\ a' = Cell(mem, \h0100 + sp')
       /\ (After("PHA") /\ Executes({"PLA"}) /\ Previous.sp \in 0..255) =>
             /\ a' = Previous.a
             /\ sp' = Previous.sp]_vars

\* PHA was stepped with A = 0x81 and SP = 0x00, wrapping SP to 0xFF, and
\* the PLA after it wrapped SP back and pulled 0x81 back into A.
C10_Witness ==
    /\ Len(out) = 2
    /\ err = NoError
    /\ out[1].op = \h48
    /\ out[1].a = \h81
    /\ out[1].sp = \h00
    /\ out[2].op = \h68
    /\ out[2].sp = \hFF
    /\ a = \h81
    /\ sp = \h00

(***************************************************************************)
(* C11: in every state reached by constructing the status register and     *)
(* then applying packed SR writes, writes of single flags (also clearing   *)
(* them) and instruction executions, PLP and RTI included, bit 5 of the    *)
(* packed SR value is 1.                                                   *)
(***************************************************************************)
C11_UnusedBitSet == get_bit_value(sr, BitUnused) = 1

\* PLP pulled a byte with no bit set and then the client wrote the packed
\* value 0xDF, which has every bit but bit 5.
C11_Witness ==
    /\ Len(out) = 1
    /\ out[1].op = \h28
    /\ Cell(mem, \h0100) = \h00
    /\ call.op = "SR.value"
    /\ call.value = \hDF
    /\ err = NoError
    /\ sr = \hFF

(***************************************************************************)
(* C12: in every state reached from the freshly constructed CPU            *)
(* (SP = 0xFF) by executing instructions, SP is in 0..0xFF, so that every  *)
(* stack access goes to page 1 (0x0100..0x01FF).                           *)
(***************************************************************************)
C12_StackPointerInPage == sp \in 0..255

(***************************************************************************)
(* C13: a step of an instruction that does not write PC itself (anything   *)
(* but a taken branch, JMP, JSR, RTS and RTI) at address P leaves          *)
(* PC = P + length, length being the byte count of the opcode in the       *)
(* instruction table; PC is advanced before the instruction's semantics    *)
(* run, so that they see the advanced PC: a relative operand is resolved   *)
(* from P + 2, and a branch stepped so close to the end of memory that     *)
(* P + 2 + offset lies outside it fails, with PC already advanced.         *)
(***************************************************************************)
PCWriters == {"JMP", "JSR", "RTS", "RTI"}

\* The step decoded an instruction and printed its trace.
Decodes == Len(out') = Len(out) + 1

C13_PcAdvance ==
    [][Decodes =>
         LET cls == INSTRUCTIONS[Printed.op]
             taken == cls \in Branches /\ BranchCondition(cls, sr)
             b == Printed.data[1]
             rel == pc + StepLength + (IF b <= 127 THEN b ELSE b - 256)
         IN  /\ (err' = NoError /\ cls \notin PCWriters /\ ~taken) =>
                   pc' = pc + StepLength
             /\ cls \in Branches =>
                   /\ (err' = "AssertionError") <=> (rel >= SIZE)
                   /\ (err' # NoError) => (pc' = pc + StepLength)]_vars

\* LDA $02F5, three bytes long, was stepped at 0x0600.
C13_Witness ==
    /\ Len(out) = 1
    /\ err = NoError
    /\ out[1].op = \hAD
    /\ out[1].pc = \h0600
    /\ out[1].data = <<\hF5, \h02>>
    /\ pc = \h0603

(***************************************************************************)
(* C14: run() keeps calling step() until SR.B is 1: whenever run() returns *)
(* normally a BRK instruction has been executed and SR.B is 1, and the     *)
(* only other way out of run() is the error of an illegal opcode.          *)
(***************************************************************************)
C14_RunUntilBreak ==
    /\ (call.op = "run" /\ call.ret # None) =>
          /\ get_bit_value(sr, BitB) = 1
          /\ \E i \in 1..Len(out) : out[i].op = \h00
    /\ (call.op = "run" /\ err # NoError) => err = "KeyError"

(***************************************************************************)
(* Memory calls a property speaks of.                                      *)
(***************************************************************************)
\* The step is a call of the memory operation op.
Calls(op) == call'.n = call.n + 1 /\ call'.op = op

\* Every cell but those of the set written holds what it held.
OthersUnchanged(written) ==
    \A c \in ((DOMAIN mem) \cup (DOMAIN mem')) \ written :
       Cell(mem', c) = Cell(mem, c)

(***************************************************************************)
(* C15: a default-constructed Memory has exactly 0x10000 byte cells, the   *)
(* addresses 0x0000..0xFFFF, and every cell is 0 at first.                 *)
(***************************************************************************)
C15_DefaultMemory ==
    (call.n = 0) =>
       /\ \A c \in 0..\hFFFF : index_err(c) = NoError /\ Cell(mem, c) = 0
       /\ index_err(\h10000) # NoError

(***************************************************************************)
(* C16: for an in-range address a and a 16-bit value v, write_word(a, v)   *)
(* stores the low byte of v at a and the high byte at a + 1, and           *)
(* read_word(a) returns mem[a] | (mem[a + 1] << 8), so that read_word(a)   *)
(* after write_word(a, v) returns v.                                       *)
(***************************************************************************)
C16_WordRoundTrip ==
    [][/\ (Calls("write_word") /\ call'.address \in 0..(SIZE - 2)
             /\ call'.value \in 0..\hFFFF) =>
             /\ err' = NoError
             /\ Cell(mem', call'.address) = call'.value % 256
             /\ Cell(mem', call'.address + 1) = call'.value \div 256
             /\ read_word(mem', call'.address) = call'.value
       /\ (Calls("read_word") /\ call'.address \in 0..(SIZE - 2)) =>
             /\ err' = NoError
             /\ call'.ret = PyOr(Cell(mem, call'.address),
                                 Cell(mem, call'.address + 1) * 256)]_vars

(***************************************************************************)
(* C17: read_byte and write_byte succeed at every address inside the       *)
(* memory, 0..0xFFFF, and a read or write at an address at or beyond the   *)
(* memory size, address >= 0x10000, fails with an error and leaves the     *)
(* memory unchanged.                                                       *)
(***************************************************************************)
C17_ByteAccessRange ==
    [][(Calls("read_byte") \/ Calls("write_byte")) =>
         /\ (call'.address \in 0..\hFFFF) => err' = NoError
         /\ (call'.address >= \h10000) => (err' # NoError /\ mem' = mem)]_vars

(***************************************************************************)
(* C18: after write_byte(a, v) for an in-range address a and any integer   *)
(* v, read_byte(a) returns v & 0xFF and every other cell is unchanged.     *)
(***************************************************************************)
C18_WriteByteFrame ==
    [][/\ (Calls("write_byte") /\ call'.address \in 0..(SIZE - 1)) =>
             /\ err' = NoError
             /\ Cell(mem', call'.address) = call'.value % 256
             /\ OthersUnchanged({call'.address})
       /\ (Calls("read_byte") /\ call'.address \in 0..(SIZE - 1)) =>
             /\ err' = NoError
             /\ call'.ret = Cell(mem, call'.address)
             /\ mem' = mem]_vars

\* write_byte(SIZE - 1, 0x1234) stored 0x34 in the last cell.
C18_Witness ==
    /\ call.op = "write_byte"
    /\ call.address = SIZE - 1
    /\ call.value = \h1234
    /\ err = NoError
    /\ Cell(mem, SIZE - 1) = \h34

(***************************************************************************)
(* C19: load(address, bytes) copies bytes[i] to address + i for every i    *)
(* and leaves all other cells unchanged; it succeeds whenever the whole    *)
(* write stays inside the address space, address + len(bytes) <= memory    *)
(* size, and fails only if the write would exceed the address space.       *)
(***************************************************************************)
\* load copied data to address, address + 1, ... and nothing else.
Copied(address, data) ==
    /\ \A i \in 1..Len(data) : Cell(mem', address + i - 1) = data[i]
    /\ OthersUnchanged({address + i - 1 : i \in 1..Len(data)})

C19_LoadFits ==
    [][(Calls("load") /\ call'.address >= 0) =>
         IF call'.address + Len(call'.data) <= SIZE
         THEN err' = NoError /\ Copied(call'.address, call'.data)
         ELSE err' # NoError]_vars

\* C19 as amended: load(address, bytes) with address >= 0 succeeds exactly
\* when address + len(bytes) < memory size, and then copies bytes[i] to
\* address + i for every i and leaves all other cells unchanged; otherwise,
\* also when the last byte would land on the last cell, it fails with an
\* assertion error and writes nothing.
C19_LoadBelowLastCell ==
    [][(Calls("load") /\ call'.address >= 0) =>
         IF call'.address + Len(call'.data) < SIZE
         THEN err' = NoError /\ Copied(call'.address, call'.data)
         ELSE err' = "AssertionError" /\ mem' = mem]_vars

\* The four bytes DE AD BE EF were loaded so that they end one cell before
\* the last.
C19_Witness ==
    /\ call.op = "load"
    /\ call.address = SIZE - 5
    /\ call.data = <<\hDE, \hAD, \hBE, \hEF>>
    /\ err = NoError
    /\ Cell(mem, SIZE - 5) = \hDE
    /\ Cell(mem, SIZE - 2) = \hEF
    /\ Cell(mem, SIZE - 1) = \h00

(***************************************************************************)
(* C20: load(SIZE - len(data), data), where the last byte of data would    *)
(* land on the last memory cell, is rejected with an assertion error and   *)
(* writes nothing.                                                         *)
(***************************************************************************)
C20_LoadOntoLastCell ==
    [][(Calls("load") /\ call'.address = SIZE - Len(call'.data)) =>
         (err' = "AssertionError" /\ mem' = mem)]_vars

\* load(SIZE - 4, DE AD BE EF) on the constructed memory was rejected.
C20_Witness ==
    /\ call.n = 1
    /\ call.op = "load"
    /\ call.address = SIZE - 4
    /\ call.data = <<\hDE, \hAD, \hBE, \hEF>>
    /\ err = "AssertionError"
    /\ mem = Memory_init

(***************************************************************************)
(* Calls a client makes on the byte helpers.  They are pure functions: a   *)
(* call leaves the emulator as it is and returns a value or raises.        *)
(***************************************************************************)
Helper_to_signed_byte(num) ==
    /\ call.n < MaxCalls
    /\ err' = IF to_signed_byte_ok(num) THEN NoError ELSE "AssertionError"
    /\ call' = Call("to_signed_byte", None, num, <<>>,
                    IF to_signed_byte_ok(num)
                    THEN to_signed_byte(num) ELSE None)
    /\ UNCHANGED <<a, x, y, sp, pc, sr, mem, out>>

Helper_to_unsigned_byte(num) ==
    /\ call.n < MaxCalls
    /\ err' = IF to_unsigned_byte_ok(num) THEN NoError ELSE "AssertionError"
    /\ call' = Call("to_unsigned_byte", None, num, <<>>,
                    IF to_unsigned_byte_ok(num)
                    THEN to_unsigned_byte(num) ELSE None)
    /\ UNCHANGED <<a, x, y, sp, pc, sr, mem, out>>

\* Arguments of the helpers: both ranges and a few values on either side.
HelperInputs == (-131)..258

InitHelpers == Holds(Constructed)

NextHelpers ==
    \/ \E num \in HelperInputs : Helper_to_signed_byte(num)
    \/ \E num \in HelperInputs : Helper_to_unsigned_byte(num)

SpecHelpers == InitHelpers /\ [][NextHelpers]_vars

\* The call just made is given what the call before it returned.
Chained(first, second) ==
    /\ call.op = first
    /\ err = NoError
    /\ Calls(second)
    /\ call'.value = call.ret

(***************************************************************************)
(* C21: to_unsigned_byte(to_signed_byte(n)) = n for every n in 0..255 and  *)
(* to_signed_byte(to_unsigned_byte(n)) = n for every n in -128..127;       *)
(* to_signed_byte maps 0..127 to itself and 128..255 to n - 256; both      *)
(* helpers fail on an argument outside their range.                        *)
(***************************************************************************)
C21_ByteHelpers ==
    [][/\ Calls("to_signed_byte") =>
             /\ (call'.value \in 0..127) =>
                    (err' = NoError /\ call'.ret = call'.value)
             /\ (call'.value \in 128..255) =>
                    (err' = NoError /\ call'.ret = call'.value - 256)
             /\ (call'.value \notin 0..255) => err' = "AssertionError"
       /\ Calls("to_unsigned_byte") =>
             /\ (call'.value \in (-128)..127) => err' = NoError
             /\ (call'.value \notin (-128)..127) => err' = "AssertionError"
       /\ Chained("to_signed_byte", "to_unsigned_byte") =>
             (err' = NoError /\ call'.ret = call.value)
       /\ Chained("to_unsigned_byte", "to_signed_byte") =>
             (err' = NoError /\ call'.ret = call.value)]_vars

\* A second call, to_unsigned_byte(-128), returned 0x80.
C21_Witness ==
    /\ call.n = 2
    /\ call.op = "to_unsigned_byte"
    /\ call.value = -128
    /\ call.ret = \h80
    /\ err = NoError

(***************************************************************************)
(* Calls a client makes on the 8 bit registers A, X and Y: a write of      *)
(* the value property and a read of the signed property.                   *)
(***************************************************************************)
Registers8 == {"A", "X", "Y"}

\* The value the named register holds.
Reg8(reg) == IF reg = "A" THEN a ELSE IF reg = "X" THEN x ELSE y

ValueOp(reg) == IF reg = "A" THEN "A.value"
                ELSE IF reg = "X" THEN "X.value" ELSE "Y.value"

SignedOp(reg) == IF reg = "A" THEN "A.signed"
                 ELSE IF reg = "X" THEN "X.signed" ELSE "Y.signed"

\* reg.value = val
Reg_write(reg, val) ==
    /\ call.n < MaxCalls
    /\ \E r \in {IF value_set_ok(val)
                 THEN [v |-> value_set(val, MASK8), err |-> NoError]
                 ELSE [v |-> Reg8(reg), err |-> "AssertionError"]} :
          /\ a' = IF reg = "A" THEN r.v ELSE a
          /\ x' = IF reg = "X" THEN r.v ELSE x
          /\ y' = IF reg = "Y" THEN r.v ELSE y
          /\ err' = r.err
    /\ call' = Call(ValueOp(reg), None, val, <<>>, None)
    /\ UNCHANGED <<sp, pc, sr, mem, out>>

\* reg.signed
Reg_signed(reg) ==
    /\ call.n < MaxCalls
    /\ err' = IF to_signed_byte_ok(Reg8(reg))
              THEN NoError ELSE "AssertionError"
    /\ call' = Call(SignedOp(reg), None, None, <<>>,
                    IF to_signed_byte_ok(Reg8(reg))
                    THEN signed(Reg8(reg)) ELSE None)
    /\ UNCHANGED <<a, x, y, sp, pc, sr, mem, out>>

\* Values written: bytes, values wider than a byte, signed bytes below
\* zero, and values below the signed bytes.
WriteValues ==
    {\h00, \h01, \h7F, \h80, \hFF, \h100, \h1FF, \h1234,
     -1, -127, -128, -129, -200, -256}

InitRegisters == Holds(Constructed)

NextRegisters ==
    \/ \E reg \in Registers8, val \in WriteValues : Reg_write(reg, val)
    \/ \E reg \in Registers8 : Reg_signed(reg)

SpecRegisters == InitRegisters /\ [][NextRegisters]_vars

\* The two's-complement reading of the byte b.
TwosComplement(b) == IF b >= 128 THEN b - 256 ELSE b

\* The signed view of a register returns the two's-complement reading of
\* the byte it holds.
SignedView(reg) ==
    Calls(SignedOp(reg)) =>
        /\ err' = NoError
        /\ call'.ret \in (-128)..127
        /\ call'.ret = TwosComplement(Reg8(reg))

C23_FlagWriteFrame ==
    [][/\ <<BitN, BitV, BitB, BitD, BitI, BitZ, BitC>> = <<7, 6, 4, 3, 2, 1, 0>>
       /\ Calls("SR.flag") =>
             /\ call'.address \in {7, 6, 4, 3, 2, 1, 0}
             /\ IF call'.value \in {0, 1}
                THEN /\ err' = NoError
                     /\ sr' \in 0..255
                     /\ \A b \in 0..7 :
                           PyBit(sr', b) = IF b = call'.address
                                           THEN call'.value ELSE PyBit(sr, b)
                     /\ get_bit_value(sr', call'.address) = call'.value
                ELSE /\ err' = "AssertionError"
                     /\ sr' = sr]_vars

\* C was cleared in an SR that had every bit set.
C23_Witness ==
    /\ call.op = "SR.flag"
    /\ call.address = BitC
    /\ call.value = 0
    /\ sr = \hFE
    /\ err = NoError

(***************************************************************************)
(* The zero page indexed instructions.                                     *)
(***************************************************************************)
OpcodesOfModes(modes) ==
    {op \in DOMAIN INSTRUCTIONS : ClassTable(INSTRUCTIONS[op])[op][1] \in modes}

\* The mnemonics of the table.
Mnemonics == {clazz[i] : i \in DOMAIN clazz}

ZeroPageIndexed == {"ZEROPAGE_X_INDEXED", "ZEROPAGE_Y_INDEXED"}

\* Operand bytes of a zero page indexed instruction: the ends of the page,
\* the middle, and the operand of the documented scenario.
ZeroPageOperands == {\h00, \h05, \h80, \hF5, \hFF}

\* X and Y: no index, the documented 0x10, and sums that reach and pass the
\* end of the page; X and Y differ wherever one is not zero.
ZeroPageIndexes ==
    {<<\h00, \h00>>, <<\h01, \h10>>, <<\h10, \h0B>>, <<\h7F, \h80>>,
     <<\h0B, \h01>>, <<\hFF, \hFB>>}

\* The first cells of page 0, the cells around 0xF5 and the first cells of
\* page 1, filled so that a cell differs from its neighbours and from the
\* cell 0x100 above it, with the documented 0x42 at 0x05.
PageImages ==
    << <<\h0000, <<\h01, \h02, \h03, \h04, \h05, \h42, \h07, \h08>> >>,
       <<\h00F4, <<\hF4, \hF5, \hF6, \hF7>> >>,
       <<\h0100, <<\h81, \h82, \h83, \h84, \h85, \h86, \h87, \h88>> >> >>

\* One zero page indexed instruction at p.
InitZeroPage ==
    \E op \in OpcodesOfModes(ZeroPageIndexed), b0 \in ZeroPageOperands,
       xy \in ZeroPageIndexes, p \in {\h0000, \h0600} :
       Holds([Loaded(PageImages \o << <<p, <<op, b0>> >> >>, p, \h33, \hFF, \h20)
                 EXCEPT !.x = value_set(xy[1], MASK8),
                        !.y = value_set(xy[2], MASK8)])

SpecZeroPage == InitZeroPage /\ [][Next]_vars

\* The index register of the mode.
StepIndex == IF StepMode = "ZEROPAGE_X_INDEXED" THEN x ELSE y

(***************************************************************************)
(* C24: for ZEROPAGE_X_INDEXED and ZEROPAGE_Y_INDEXED, for every operand   *)
(* byte b0 and index register value, the effective address is              *)
(* (b0 + index) & 0xFF, so it never leaves page 0; LDA $F5,X with X = 0x10 *)
(* and mem[0x05] = 0x42 gives A = 0x42, Z = 0, N = 0.                      *)
(***************************************************************************)
C24_ZeroPageWrap ==
    [][(Executes(Mnemonics) /\ StepMode \in ZeroPageIndexed) =>
         LET ea == (Printed.data[1] + StepIndex) % 256
             resolved == calculate_operand(StepMode, Printed.data,
                                           [Machine EXCEPT !.pc = pc + StepLength])
         IN  /\ resolved.address = ea
             /\ resolved.address \in 0..255
             /\ resolved.operand = Cell(mem, ea)
             /\ INSTRUCTIONS[Printed.op] = "LDA" => a' = Cell(mem, ea)
             /\ INSTRUCTIONS[Printed.op] = "LDX" => x' = Cell(mem, ea)
             /\ INSTRUCTIONS[Printed.op] = "LDY" => y' = Cell(mem, ea)
             /\ INSTRUCTIONS[Printed.op] = "STA" =>
                   (Cell(mem', ea) = a /\ OthersUnchanged({ea}))
             /\ INSTRUCTIONS[Printed.op] = "STX" =>
                   (Cell(mem', ea) = x /\ OthersUnchanged({ea}))
             /\ INSTRUCTIONS[Printed.op] = "STY" =>
                   (Cell(mem', ea) = y /\ OthersUnchanged({ea}))
             /\ (/\ Printed.op = \hB5
                 /\ Printed.data = <<\hF5>>
                 /\ x = \h10
                 /\ Cell(mem, \h05) = \h42) =>
                   /\ a' = \h42
                   /\ get_bit_value(sr', BitZ) = 0
                   /\ get_bit_value(sr', BitN) = 0]_vars

\* LDA $F5,X was stepped at 0x0000 with X = 0x10 and 0x42 in cell 0x05.
C24_Witness ==
    /\ Len(out) = 1
    /\ err = NoError
    /\ out[1].op = \hB5
    /\ out[1].data = <<\hF5>>
    /\ out[1].pc = 0
    /\ out[1].x = \h10
    /\ Cell(mem, \h05) = \h42
    /\ a = \h42

(***************************************************************************)
(* Calls a client makes on the resolver itself:                            *)
(* AddressMode.calculate_operand(mode, bytez, mcu, memory).  call.op is    *)
(* the mode, call.data the operand bytes, call.ret the operand and         *)
(* call.address the address it returned.                                   *)
(***************************************************************************)
Resolve(mode, bytez) ==
    /\ call.n < MaxCalls
    /\ \E r \in {calculate_operand(mode, bytez, Machine)} :
          /\ err' = r.err
          /\ call' = Call(mode, r.address, None, bytez, r.operand)
    /\ UNCHANGED <<a, x, y, sp, pc, sr, mem, out>>

\* The thirteen members of AddressMode.
Modes ==
    {"ACCUMULATOR", "ABSOLUTE", "ABSOLUTE_X_INDEXED", "ABSOLUTE_Y_INDEXED",
     "IMMEDIATE", "IMPLIED", "INDIRECT", "INDEXED_X_INDIRECT",
     "INDIRECT_Y_INDEXED", "RELATIVE", "ZEROPAGE", "ZEROPAGE_X_INDEXED",
     "ZEROPAGE_Y_INDEXED"}

\* Operand bytes handed to the resolver: none, one, two and three.
ResolverBytes ==
    {<<>>, <<\h05>>, <<\hF5>>, <<\h05, \h02>>, <<\hF5, \h00>>,
     <<\h05, \h02, \h00>>}

\* The pages of the zero page scenarios, with A, X and Y set.
InitResolver ==
    \E av \in {\h00, \h33}, xy \in ZeroPageIndexes :
       Holds([Loaded(PageImages, 0, av, \hFF, \h20)
                 EXCEPT !.x = value_set(xy[1], MASK8),
                        !.y = value_set(xy[2], MASK8)])

NextResolver == \E mode \in Modes, bytez \in ResolverBytes : Resolve(mode, bytez)

SpecResolver == InitResolver /\ [][NextResolver]_vars

\* The number of operand bytes the documented mode table gives a mode.
ModeOperandBytes(mode) ==
    CASE mode \in {"ACCUMULATOR", "IMPLIED"} -> 0
      [] mode \in {"IMMEDIATE", "RELATIVE", "ZEROPAGE", "ZEROPAGE_X_INDEXED",
                   "ZEROPAGE_Y_INDEXED", "INDEXED_X_INDIRECT",
                   "INDIRECT_Y_INDEXED"} -> 1
      [] mode \in {"ABSOLUTE", "ABSOLUTE_X_INDEXED", "ABSOLUTE_Y_INDEXED",
                   "INDIRECT"} -> 2

(***************************************************************************)
(* C25: for every one of the 13 addressing modes, calling the resolver     *)
(* with a number of operand bytes different from the mode's table value    *)
(* (0 for ACCUMULATOR and IMPLIED; 1 for IMMEDIATE, RELATIVE, ZEROPAGE,    *)
(* ZEROPAGE_X_INDEXED, ZEROPAGE_Y_INDEXED, INDEXED_X_INDIRECT,             *)
(* INDIRECT_Y_INDEXED; 2 for ABSOLUTE, ABSOLUTE_X_INDEXED,                 *)
(* ABSOLUTE_Y_INDEXED, INDIRECT) fails with a fatal decode error instead   *)
(* of returning an operand.                                                *)
(***************************************************************************)
C25_DecodeLengthMismatch ==
    [][\A mode \in Modes :
          (Calls(mode) /\ Len(call'.data) # ModeOperandBytes(mode)) =>
             (err' = "AssertionError" /\ call'.ret = None)]_vars

(***************************************************************************)
(* The instruction table as a whole.                                       *)
(***************************************************************************)
\* The table entry <<address mode, bytes, cycles, page cycles>> of an opcode.
Entry(op) == ClassTable(INSTRUCTIONS[op])[op]

\* The table holds 151 opcodes and 56 mnemonics, no opcode is in the tables
\* of two mnemonics, and every recorded length is 1, 2 or 3 and one more
\* than the operand bytes of the opcode's addressing mode.
TableFacts ==
    /\ Cardinality(DOMAIN INSTRUCTIONS) = 151
    /\ Len(clazz) = 56
    /\ Cardinality(Mnemonics) = 56
    /\ \A i \in DOMAIN clazz, j \in DOMAIN clazz :
          i # j => (DOMAIN ClassTable(clazz[i])) \cap (DOMAIN ClassTable(clazz[j])) = {}
    /\ \A op \in DOMAIN INSTRUCTIONS :
          /\ op \in 0..255
          /\ Entry(op)[1] \in Modes
          /\ Entry(op)[2] \in {1, 2, 3}
          /\ Entry(op)[2] - 1 = ModeOperandBytes(Entry(op)[1])

\* The first n of three operand bytes.
SomeBytes(n) == SubSeq(<<\h05, \h02, \h00>>, 1, n)

(***************************************************************************)
(* C26: the instruction table holds exactly 151 distinct opcodes across 56 *)
(* mnemonics, no opcode is claimed by two mnemonics, and for every opcode  *)
(* the recorded length is 1, 2 or 3 with length - 1 equal to the operand   *)
(* byte count the resolver requires for the opcode's addressing mode: the  *)
(* resolver takes the length - 1 bytes a step hands it and, in the modes   *)
(* in which it checks the count, refuses every other count.                *)
(***************************************************************************)
C26_InstructionTable ==
    [][/\ TableFacts
       /\ Decodes =>
             LET after == [Machine EXCEPT !.pc = pc + StepLength]
             IN  /\ StepLength \in {1, 2, 3}
                 /\ Len(Printed.data) = StepLength - 1
                 /\ calculate_operand(StepMode, Printed.data, after).err = NoError
                 /\ StepMode \notin {"ACCUMULATOR", "IMPLIED"} =>
                       \A n \in (0..3) \ {StepLength - 1} :
                          calculate_operand(StepMode, SomeBytes(n), after).err
                             = "AssertionError"]_vars

\* The three bytes of ADC $02F5 were decoded and executed.
C26_Witness ==
    /\ Len(out) = 1
    /\ out[1].op = \h6D
    /\ out[1].data = <<\hF5, \h02>>
    /\ pc = 3
    /\ err = NoError

(***************************************************************************)
(* The debugger's reset: do_reset replaces the emulator by a newly         *)
(* constructed one.  What was printed stays printed.                       *)
(***************************************************************************)
Reset ==
    /\ Alive
    /\ call.n < MaxCalls
    /\ a' = Constructed.a
    /\ x' = Constructed.x
    /\ y' = Constructed.y
    /\ sp' = Constructed.sp
    /\ pc' = Constructed.pc
    /\ sr' = Constructed.sr
    /\ mem' = Constructed.mem
    /\ err' = NoError
    /\ call' = Call("reset", None, None, <<>>, None)
    /\ out' = out

\* Programs loaded at 0x0000 that change registers, flags, the stack and
\* memory: LDA #$FF PHA, LDX #$80 TXS, LDY #$01 STY $10, SEC SED, SEI BRK,
\* JMP $1234, and an illegal opcode.
ResetPrograms ==
    {<<\hA9, \hFF, \h48>>, <<\hA2, \h80, \h9A>>, <<\hA0, \h01, \h84, \h10>>,
     <<\h38, \hF8>>, <<\h78, \h00>>, <<\h4C, \h34, \h12>>, <<\h02>>}

InitReset == Holds(Constructed)

NextReset ==
    \/ \E prog \in ResetPrograms : Mem_load(0, prog)
    \/ Step
    \/ Reset

SpecReset == InitReset /\ [][NextReset]_vars

\* A = X = Y = 0, SP = 0xFF, PC = 0, SR = 0x20 with the seven flags 0, and
\* every memory byte 0.
Fresh(av, xv, yv, spv, pcv, srv, mm) ==
    /\ av = 0
    /\ xv = 0
    /\ yv = 0
    /\ spv = \hFF
    /\ pcv = 0
    /\ srv = \h20
    /\ \A bit \in NamedFlags : get_bit_value(srv, bit) = 0
    /\ get_bit_value(srv, BitUnused) = 1
    /\ \A c \in 0..(SIZE - 1) : Cell(mm, c) = 0

(***************************************************************************)
(* C27: a freshly constructed (or reset) emulator has A = X = Y = 0,       *)
(* SP = 0xFF, PC = 0, SR = 0x20 (only bit 5 set; N, V, B, D, I, Z, C all   *)
(* 0) and every memory byte 0.                                             *)
(***************************************************************************)
C27_FreshState ==
    /\ Fresh(a, x, y, sp, pc, sr, mem)
    /\ [][Calls("reset") => Fresh(a', x', y', sp', pc', sr', mem')]_vars

\* The emulator was reset after LDA #$FF and PHA had changed A, SP and the
\* stack.
C27_Witness ==
    /\ call.op = "reset"
    /\ Len(out) = 2
    /\ out[2].a = \hFF
    /\ out[2].op = \h48
    /\ a = 0
    /\ sp = \hFF
    /\ mem = Memory_init

\* The instructions that write B or the whole of SR.
BreakWriters == {"BRK", "RTI", "PLP"}

\* Every step printed so far was of an instruction outside the given
\* classes.
OnlyStepped(classes) ==
    \A i \in 1..Len(out) : INSTRUCTIONS[out[i].op] \in classes

(***************************************************************************)
(* C28: B is the halt flag set by BRK: starting from reset (B = 0), after  *)
(* any sequence of steps of instructions other than BRK, RTI and PLP the B *)
(* flag is still 0; a step of such an instruction leaves B unchanged.      *)
(***************************************************************************)
C28_BreakOnlyByBrk ==
    /\ []((err = NoError /\ OnlyStepped(Mnemonics \ BreakWriters)) =>
             get_bit_value(sr, BitB) = 0)
    /\ [][Executes(Mnemonics \ BreakWriters) =>
             get_bit_value(sr', BitB) = get_bit_value(sr, BitB)]_vars

(***************************************************************************)
(* C29: RTI pulls SR and then PC from the stack in page 1 using the pull   *)
(* rule (SP <- (SP+1) & 0xFF, then read 0x0100 + SP): first the SR byte,   *)
(* then the PC low byte, then the PC high byte, leaving SP increased by 3  *)
(* modulo 256, PC = (high << 8) | low, and B = 1.                          *)
(***************************************************************************)
C29_RtiPulls ==
    [][Executes({"RTI"}) =>
         LET sp1 == (sp + 1) % 256
             sp2 == (sp + 2) % 256
             sp3 == (sp + 3) % 256
             status == Cell(mem, \h0100 + sp1)
             low == Cell(mem, \h0100 + sp2)
             high == Cell(mem, \h0100 + sp3)
         IN  /\ sp' = sp3
             /\ pc' = high * 256 + low
             /\ \A bit \in NamedFlags \ {BitB} :
                   get_bit_value(sr', bit) = PyBit(status, bit)
             /\ get_bit_value(sr', BitB) = 1]_vars

\* A step is taken where the byte at PC is none of the given opcodes; a
\* step leaves the record of the client's calls as it is.
StepsOutside(opcodes) ==
    /\ call' = call
    /\ access_err(pc) = NoError
    /\ read_byte(mem, pc) \notin opcodes

(***************************************************************************)
(* C30: a step whose opcode byte at PC is not in the instruction table     *)
(* fails with an illegal-opcode error and leaves every register, every     *)
(* status flag and all memory exactly as they were before the step.        *)
(***************************************************************************)
C30_IllegalOpcode ==
    [][StepsOutside(DOMAIN INSTRUCTIONS) =>
         /\ err' = "KeyError"
         /\ a' = a
         /\ x' = x
         /\ y' = y
         /\ sp' = sp
         /\ pc' = pc
         /\ sr' = sr
         /\ mem' = mem]_vars

(***************************************************************************)
(* The instructions that modify or test a byte: INC, DEC, the shifts and   *)
(* rotates in every addressing mode, and BIT.                              *)
(***************************************************************************)
Modifiers == {"INC", "DEC", "ASL", "LSR", "ROL", "ROR", "BIT"}

\* One such instruction on the data image of v, with A = av, X = 0x10 and
\* Y = 0x01, which lead the indexed modes to cells that hold v.
\* ROL at address 0 followed by the ROR of the same addressing mode and the
\* same operand bytes.
RotatePair(rol, v, av, srv) ==
    LET mode == ROL_INSTRUCTIONS[rol][1]
        ror == CHOOSE op \in DOMAIN ROR_INSTRUCTIONS : ROR_INSTRUCTIONS[op][1] = mode
        s == OneInstruction(rol, 0, v, av, \h10, \h01, \hFF, srv)
    IN  [s EXCEPT !.mem = load(s.mem, ROL_INSTRUCTIONS[rol][2],
                               <<ror>> \o OperandBytes(mode, v))]

InitModify ==
    \/ \E op \in OpcodesOf(Modifiers), v \in Bytes, av \in Bytes, srv \in Statuses :
          Holds(OneInstruction(op, 0, v, av, \h10, \h01, \hFF, srv))
    \/ \E rol \in OpcodesOf({"ROL"}), v \in Bytes, av \in Bytes, srv \in Statuses :
          Holds(RotatePair(rol, v, av, srv))

SpecModify == InitModify /\ [][Next]_vars

\* The effective address the addressing mode resolves for the instruction.
StepAddress ==
    calculate_operand(StepMode, Printed.data,
                      [Machine EXCEPT !.pc = pc + StepLength]).address

(***************************************************************************)
(* C31: for every memory byte M in 0..255, INC stores (M + 1) mod 256 and  *)
(* DEC stores (M - 1) mod 256 at the effective address, and both set Z = 1 *)
(* exactly when the stored byte is 0 and N to bit 7 of the stored byte; in *)
(* particular INC of 0xFF stores 0x00 with Z = 1, N = 0, and DEC of 0x81   *)
(* stores 0x80 with N = 1.                                                 *)
(***************************************************************************)
C31_IncDec ==
    [][Executes({"INC", "DEC"}) =>
         LET M == StepOperand
             stored == IF INSTRUCTIONS[Printed.op] = "INC"
                       THEN (M + 1) % 256 ELSE (M - 1) % 256
         IN  /\ Cell(mem', StepAddress) = stored
             /\ get_bit_value(sr', BitZ) = B2I(stored = 0)
             /\ get_bit_value(sr', BitN) = Bit7(stored)]_vars

\* The byte a shift or rotate left in its destination: A in ACCUMULATOR
\* mode, otherwise the cell at the effective address.
Shifted == IF StepMode = "ACCUMULATOR" THEN a' ELSE Cell(mem', StepAddress)

\* A shift or rotate left alone what is not its destination: memory in
\* ACCUMULATOR mode, A and every other cell in a memory mode.
ShiftFrame ==
    IF StepMode = "ACCUMULATOR" THEN OthersUnchanged({})
    ELSE a' = a /\ OthersUnchanged({StepAddress})

(***************************************************************************)
(* C32: ASL replaces its destination (A in ACCUMULATOR mode, otherwise the *)
(* byte at the effective address) with (old << 1) & 0xFF, sets C to the    *)
(* old bit 7 of the destination, and sets N and Z from the result; in a    *)
(* memory mode A is left unchanged and in ACCUMULATOR mode memory is left  *)
(* unchanged.                                                              *)
(***************************************************************************)
C32_Asl ==
    [][Executes({"ASL"}) =>
         LET old == StepOperand
             result == (old * 2) % 256
         IN  /\ Shifted = result
             /\ get_bit_value(sr', BitC) = Bit7(old)
             /\ get_bit_value(sr', BitN) = Bit7(result)
             /\ get_bit_value(sr', BitZ) = B2I(result = 0)
             /\ ShiftFrame]_vars

(***************************************************************************)
(* C33: BIT with accumulator A and memory operand M sets Z = 1 exactly     *)
(* when (A & M) == 0, sets N to bit 7 of M and V to bit 6 of M (of M       *)
(* itself, independent of A), and changes neither A nor memory.            *)
(***************************************************************************)
C33_Bit ==
    [][Executes({"BIT"}) =>
         LET M == StepOperand
         IN  /\ get_bit_value(sr', BitZ) = B2I(PyAnd(a, M) = 0)
             /\ get_bit_value(sr', BitN) = PyBit(M, 7)
             /\ get_bit_value(sr', BitV) = PyBit(M, 6)
             /\ a' = a
             /\ OthersUnchanged({})]_vars

(***************************************************************************)
(* C34: LSR sets C to bit 0 of the source, stores source >> 1 in the       *)
(* destination (A in ACCUMULATOR mode, otherwise memory at the effective   *)
(* address), sets Z from the result, and always leaves N = 0 whatever N    *)
(* was before the instruction.                                             *)
(***************************************************************************)
C34_Lsr ==
    [][Executes({"LSR"}) =>
         LET source == StepOperand
             result == source \div 2
         IN  /\ get_bit_value(sr', BitC) = source % 2
             /\ Shifted = result
             /\ get_bit_value(sr', BitZ) = B2I(result = 0)
             /\ get_bit_value(sr', BitN) = 0]_vars

\* The machine after the step just taken.
MachineAfter ==
    [a |-> a', x |-> x', y |-> y', sp |-> sp', pc |-> pc', sr |-> sr',
     mem |-> mem', err |-> NoError]

\* The ROR opcode of the addressing mode of the instruction being stepped.
SameModeROR ==
    CHOOSE op \in DOMAIN ROR_INSTRUCTIONS : ROR_INSTRUCTIONS[op][1] = StepMode

\* The machine ROR of the same destination leaves when it is executed right
\* after the step just taken.
ThenROR == ROR_execute(SameModeROR, Printed.data, MachineAfter)

\* The instruction being stepped has the addressing mode and operand bytes,
\* hence the destination, of the one stepped before it.
SameDestination ==
    /\ ClassTable(INSTRUCTIONS[Previous.op])[Previous.op][1] = StepMode
    /\ Previous.data = Printed.data

\* ROL and then ROR of the same addressing mode and operand bytes, hence of
\* the same destination, were stepped to their end.
RotatedBack ==
    /\ Len(out) = 2
    /\ err = NoError
    /\ INSTRUCTIONS[out[1].op] = "ROL"
    /\ INSTRUCTIONS[out[2].op] = "ROR"
    /\ ROR_INSTRUCTIONS[out[2].op][1] = ROL_INSTRUCTIONS[out[1].op][1]
    /\ out[2].data = out[1].data

(***************************************************************************)
(* C35: ROL and ROR rotate through the carry: ROL stores                   *)
(* ((old << 1) | old C) & 0xFF and sets C to the old bit 7; ROR stores     *)
(* (old >> 1) | (old C << 7) and sets C to the old bit 0; so for every     *)
(* byte and carry value, ROL followed by ROR on the same destination       *)
(* restores both the byte and C.                                           *)
(***************************************************************************)
C35_Rotates ==
    [][/\ Executes({"ROL"}) =>
            /\ Shifted = (StepOperand * 2 + get_bit_value(sr, BitC)) % 256
            /\ get_bit_value(sr', BitC) = Bit7(StepOperand)
            /\ ThenROR.err = NoError
            /\ (IF StepMode = "ACCUMULATOR" THEN ThenROR.a
                ELSE Cell(ThenROR.mem, StepAddress)) = StepOperand
            /\ get_bit_value(ThenROR.sr, BitC) = get_bit_value(sr, BitC)
       /\ Executes({"ROR"}) =>
            /\ Shifted = (StepOperand \div 2) + 128 * get_bit_value(sr, BitC)
            /\ get_bit_value(sr', BitC) = StepOperand % 2
       /\ (After("ROL") /\ Executes({"ROR"}) /\ SameDestination) =>
            /\ get_bit_value(sr', BitC) = get_bit_value(Previous.sr, BitC)
            /\ StepMode = "ACCUMULATOR" => a' = Previous.a]_vars

\* ROL and ROR of cell 0x00F5, which held 0x81 with C = 0, were stepped: the
\* cell holds 0x81 again and C is 0.
C35_Witness ==
    /\ RotatedBack
    /\ out[1].op = \h26
    /\ get_bit_value(out[1].sr, BitC) = 0
    /\ get_bit_value(out[2].sr, BitC) = 1
    /\ Cell(mem, \hF5) = \h81
    /\ get_bit_value(sr, BitC) = 0

(***************************************************************************)
(* Every instruction of the table, with the flags all clear, all set, and  *)
(* mixed.                                                                  *)
(***************************************************************************)
FlagStatuses == {\h20, \h2C, \hE3, \hEF, \hFF}

FlagOperands == {\h00, \h05, \h80, \hFF}

InitFlags ==
    \E op \in DOMAIN INSTRUCTIONS, v \in FlagOperands, av \in FlagOperands,
       srv \in FlagStatuses :
       Holds(OneInstruction(op, 0, v, av, \h10, \h01, \hFF, srv))

SpecFlags == InitFlags /\ [][Next]_vars

\* The flags the instructions of a class may change; PLP and RTI replace
\* the whole register.
DocumentedFlags(cls) ==
    CASE cls \in {"STA", "STX", "STY", "TXS", "JMP", "JSR", "RTS", "NOP",
                  "PHA", "PHP"} \cup Branches -> {}
      [] cls \in {"CLC", "SEC"} -> {BitC}
      [] cls \in {"CLI", "SEI"} -> {BitI}
      [] cls \in {"CLD", "SED"} -> {BitD}
      [] cls = "CLV" -> {BitV}
      [] cls = "BRK" -> {BitB}
      [] cls \in {"LDA", "LDX", "LDY", "TAX", "TAY", "TSX", "TXA", "TYA",
                  "AND", "ORA", "EOR", "INC", "DEC", "INX", "INY", "DEX",
                  "DEY", "PLA"} -> {BitN, BitZ}
      [] cls \in {"ASL", "LSR", "ROL", "ROR", "CMP", "CPX", "CPY"} ->
            {BitN, BitZ, BitC}
      [] cls = "BIT" -> {BitN, BitV, BitZ}
      [] cls \in {"ADC", "SBC"} -> {BitN, BitV, BitZ, BitC}
      [] cls \in {"PLP", "RTI"} -> NamedFlags

(***************************************************************************)
(* C36: executing an instruction never changes a status flag outside its   *)
(* documented set: STA, STX, STY, TXS, JMP, JSR, RTS, NOP, PHA, PHP and    *)
(* all eight branches change no flag; CLC/SEC change only C, CLI/SEI only  *)
(* I, CLD/SED only D, CLV only V; BRK changes only B; loads, transfers     *)
(* other than TXS, AND, ORA, EOR, INC, DEC, INX, INY, DEX, DEY and PLA     *)
(* change only N and Z; ASL, LSR, ROL, ROR, CMP, CPX, CPY change only N,   *)
(* Z, C; BIT changes only N, V, Z; ADC and SBC change only N, V, Z, C.     *)
(* The flags before the execution are those of the printed trace.          *)
(***************************************************************************)
C36_FlagFrame ==
    [][Executes(Mnemonics) =>
         \A bit \in NamedFlags \ DocumentedFlags(INSTRUCTIONS[Printed.op]) :
            get_bit_value(sr', bit) = get_bit_value(Printed.sr, bit)]_vars

\* CLC was stepped with every flag set: C is clear and the other six flags
\* are still set.
C36_Witness ==
    /\ Len(out) = 1
    /\ err = NoError
    /\ out[1].op = \h18
    /\ out[1].sr = \hFF
    /\ sr = \hFE

(***************************************************************************)
(* A freshly constructed emulator, a program and data loaded by the        *)
(* client, and steps. The programs drive the registers, PC and memory      *)
(* cells over the ends of their ranges.                                    *)
(***************************************************************************)
\* LDX #$FF INX; LDY #$00 DEY; LDA #$FF ADC #$01; LDA #$00 SBC #$01;
\* LDA #$80 SBC #$7F; DEC $10 INC $10; INC $10 INC $10; LDA #$80 ASL A;
\* SEC ROR $10; BPL -128; JMP $18FF; JSR $1234; LDA #$FF PHA.
RangePrograms ==
    {<<\hA2, \hFF, \hE8>>, <<\hA0, \h00, \h88>>, <<\hA9, \hFF, \h69, \h01>>,
     <<\hA9, \h00, \hE9, \h01>>, <<\hA9, \h80, \hE9, \h7F>>,
     <<\hC6, \h10, \hE6, \h10>>, <<\hE6, \h10, \hE6, \h10>>,
     <<\hA9, \h80, \h0A>>, <<\h38, \h66, \h10>>, <<\h10, \h80>>,
     <<\h4C, \hFF, \h18>>, <<\h20, \h34, \h12>>, <<\hA9, \hFF, \h48>>}

\* What the client loads: a program at 0x0000, or the byte 0xFF or 0xFE in
\* the cell the programs modify.
RangeLoads ==
    {<<0, prog>> : prog \in RangePrograms} \cup {<<\h10, <<\hFF>> >>, <<\h10, <<\hFE>> >>}

InitRange == Holds(Constructed)

NextRange ==
    \/ \E ld \in RangeLoads : Mem_load(ld[1], ld[2])
    \/ Step

SpecRange == InitRange /\ [][NextRange]_vars

(***************************************************************************)
(* C37: in every state reachable from reset by any sequence of successful  *)
(* instruction steps, A, X and Y are in 0..255, PC is in 0..0xFFFF, and    *)
(* every memory cell holds a value in 0..255.                              *)
(***************************************************************************)
C37_Ranges ==
    (err = NoError) =>
       /\ a \in 0..255
       /\ x \in 0..255
       /\ y \in 0..255
       /\ pc \in 0..\hFFFF
       /\ \A c \in 0..(SIZE - 1) : Cell(mem, c) \in 0..255

\* LDX #$FF and INX were stepped: X went over its upper end and is 0x00.
C37_Witness ==
    /\ Len(out) = 2
    /\ err = NoError
    /\ out[2].op = \hE8
    /\ out[2].x = \hFF
    /\ x = 0

(***************************************************************************)
(* Instruction.disassm called as step calls it: on the class, the opcode   *)
(* and the operand bytes of the instruction at PC.                         *)
(***************************************************************************)
Disassm ==
    /\ Alive
    /\ call.n < MaxCalls
    /\ access_err(pc) = NoError
    /\ read_byte(mem, pc) \in DOMAIN INSTRUCTIONS
    /\ LET opcode == read_byte(mem, pc)
           opcode_class == INSTRUCTIONS[opcode]
           data == Slice(mem, pc + 1, pc + get_bytez(opcode_class, opcode))
       IN  /\ \E r \in {disassm(opcode_class, opcode, Machine, data)} :
                 /\ a' = r.a
                 /\ x' = r.x
                 /\ y' = r.y
                 /\ sp' = r.sp
                 /\ pc' = r.pc
                 /\ sr' = r.sr
                 /\ mem' = r.mem
                 /\ err' = r.err
           /\ call' = Call("disassm", pc, opcode, data, None)
    /\ out' = out

\* One instruction, any of the table, at the start and near the end of the
\* memory, and LDA $FFFF, whose operand disassm fails to resolve.
InitDisassm ==
    \/ \E op \in DOMAIN INSTRUCTIONS, p \in {\h0000, \h1880}, v \in StepOperands,
          srv \in {\h20, \hE3} :
          Holds(OneInstruction(op, p, v, \h42, \h01, \h10, \hFF, srv))
    \/ Holds(Loaded(<< <<0, <<\hAD, \hFF, \hFF>> >> >>, 0, \h42, \hFF, \h20))

NextDisassm == Disassm \/ Step

SpecDisassm == InitDisassm /\ [][NextDisassm]_vars

(***************************************************************************)
(* C38: disassembling an instruction (Instruction.disassm, as step calls   *)
(* it for logging before executing) changes no register, no status flag    *)
(* and no memory cell, for every opcode and addressing mode: a call leaves  *)
(* A, X, Y, SP, PC, SR and the memory as they were, whether it returns or   *)
(* raises, and the registers step prints once the instruction is           *)
(* disassembled are those it started with, B aside, which step itself sets. *)
(***************************************************************************)
C38_DisassmFrame ==
    [][/\ Calls("disassm") =>
            /\ a' = a
            /\ x' = x
            /\ y' = y
            /\ sp' = sp
            /\ pc' = pc
            /\ sr' = sr
            /\ mem' = mem
       /\ Len(out') = Len(out) + 1 =>
            /\ Printed.a = a
            /\ Printed.x = x
            /\ Printed.y = y
            /\ Printed.sp = sp
            /\ Printed.sr = set_bit_value(sr, BitB, 1)]_vars

\* LDA $02F5 at 0x1880 was disassembled and then stepped: the call left PC
\* on the instruction and the step loaded A.
C38_Witness ==
    /\ call.op = "disassm"
    /\ call.value = \hAD
    /\ call.address = \h1880
    /\ Len(out) = 1
    /\ out[1].pc = \h1880
    /\ out[1].a = \h42
    /\ pc = \h1883
    /\ a = \h80
    /\ err = NoError

====
